---- MODULE Spec2Model ----
(***************************************************************************)
(* Model of the batch retrieval and bulk mutation engine of                *)
(* src/proton-email-server.py (class ProtonEmailClient).                   *)
(*                                                                         *)
(* The IMAP session is an external collaborator: every call on it is one   *)
(* step whose outcome (OK, a non-OK status, a raised exception, the shape  *)
(* of the returned data) is chosen nondeterministically and recorded in    *)
(* `log`.  One client operation runs per behaviour; its arguments are      *)
(* chosen in the initial state.                                            *)
(***************************************************************************)
EXTENDS Integers, Sequences, FiniteSets, TLC

\* ------------------------------------------------------------------ bounds
MaxIds == 3          \* message identifiers are 1..MaxIds
MaxBatch == 3        \* explicit batch sizes are 1..MaxBatch

\* ------------------------------------------------------- program constants
DefaultMoveBatchSize == 100     \* bulk_move_emails(batch_size=100)
DefaultMarkBatchSize == 100     \* bulk_mark_emails(batch_size=100)
DetailsLimit == 10              \* details[:10]

VARIABLES
    op,                 \* the top-level client operation of this behaviour
    permanent,          \* bulk_delete_emails: the `permanent` argument
    frame,              \* the method whose body is executing
    email_ids,          \* argument: the list of ids
    mailbox,            \* argument: mailbox / source_folder
    target_folder,      \* bulk_move_emails: target_folder
    flag,               \* bulk_mark_emails: flag
    action,             \* bulk_mark_emails: action ("add" / "remove")
    batch_size,         \* argument: batch_size
    pc,                 \* position in the executing method
    i,                  \* for i in range(0, len(email_ids), batch_size)
    k,                  \* position (1-based) of the per-id fallback loop
    emails,             \* get_bulk_emails: the dict, a set of <<id, record>>
    moved_count, failed_count, marked_count, details,
    mailbox_selected,   \* the local flag of the same name
    pending,            \* what the try block decided, carried out after finally
    mark_result,        \* bulk_delete_emails: result of its bulk_mark_emails call
    result,             \* the value returned to the caller
    exit,               \* "running", "returned" or "raised"
    open,               \* sessions connected and not yet logged out
    log,                \* the transport calls issued so far, in order
    replay,             \* transport outcomes to reproduce (equivalence runs)
    first,              \* outcome of the first of two compared runs
    store,              \* the persisted rule file, as load_filter_rules reads it
    rcall,              \* the last call on the rule store and how it ended
    email_data,         \* email_matches_rule: the message record
    rule,               \* email_matches_rule: the rule
    matched,            \* email_matches_rule: the value returned
    chunk_size,         \* apply_filter_rules_optimized: chunk_size
    rules,              \* the rule list loaded by the apply call
    full_emails,        \* the hydrated messages, a list of <<id, record>>
    bulk_actions,       \* the aggregation lists of the chunk in hand
    bulk_results,       \* the results of the bulk calls of the chunk in hand
    actions_taken,
    rule_results,
    total_processed, total_actions, all_bulk_results,
    calls,              \* what the apply call has called so far, in order
    confirm,            \* unsubscribe_from_email: confirm
    method_index,       \* unsubscribe_from_email: method_index
    unsubscribe_info,   \* the value find_unsubscribe_links returned
    limit,              \* search_emails: limit
    writers             \* the rule-store operations in progress, one per caller

vars == <<op, permanent, frame, email_ids, mailbox, target_folder, flag, action,
          batch_size, pc, i, k, emails, moved_count, failed_count, marked_count,
          details, mailbox_selected, pending, mark_result, result, exit, open,
          log, replay, first, store, rcall, email_data, rule, matched,
          chunk_size, rules, full_emails, bulk_actions, bulk_results,
          actions_taken, rule_results, total_processed, total_actions,
          all_bulk_results, calls, confirm, method_index, unsubscribe_info,
          limit, writers>>

\* ----------------------------------------------------------------- helpers
Ids == 1..MaxIds
BatchSizes == 1..MaxBatch

Min(a, b) == IF a < b THEN a ELSE b

RECURSIVE SeqOfSet(_)
\* the ascending list of a set of ids
SeqOfSet(S) ==
    IF S = {} THEN <<>>
    ELSE LET m == CHOOSE x \in S : \A y \in S : x <= y
         IN <<m>> \o SeqOfSet(S \ {m})

IdLists == {SeqOfSet(S) : S \in SUBSET Ids}

Range(s) == {s[n] : n \in 1..Len(s)}

\* email_ids[i:i + batch_size]
BatchIds(ids, start, size) == SubSeq(ids, start + 1, Min(start + size, Len(ids)))

batch_ids == BatchIds(email_ids, i, batch_size)

NoResult == [kind |-> "none"]
NoPending == [kind |-> "none"]

\* dict item assignment emails[email_id] = record
Put(d, key, rec) == {p \in d : p[1] # key} \cup {<<key, rec>>}
Keys(d) == {p[1] : p \in d}

\* one entry of the transport log
\* (site: the place in the method that issues it; arg: target folder or flags)
Call(name, site, ids, box, arg, out, data) ==
    [call |-> name, site |-> site, ids |-> ids, box |-> box, arg |-> arg,
     out |-> out, data |-> data]

\* In a replayed run the session answers the n-th call as it did in the
\* recorded run; otherwise every outcome is possible.
Allowed(out, data) ==
    IF Len(log) >= Len(replay)
    THEN TRUE
    ELSE replay[Len(log) + 1].out = out /\ replay[Len(log) + 1].data = data

\* ------------------------------------------------- transport: fetch replies
\* An item of msg_data is modelled by an integer: n > 0 is a tuple whose
\* payload is the raw message n, 0 is a tuple with an empty payload, -1 is a
\* bare bytes item (the closing parenthesis imaplib puts after each tuple).
RECURSIVE FetchData(_, _)
\* kinds[n] says what the server sends for the n-th requested id
FetchData(ids, kinds) ==
    IF ids = <<>> THEN <<>>
    ELSE (CASE Head(kinds) = "rec"   -> <<Head(ids), -1>>
            [] Head(kinds) = "blank" -> <<0, -1>>
            [] OTHER                 -> <<>>)
         \o FetchData(Tail(ids), Tail(kinds))

ItemKinds == {"rec", "blank", "gone"}

\* every reply the session may give to fetch(id_list, '(RFC822)')
FetchReplies(ids) ==
    {[out |-> "raise", data |-> <<>>], [out |-> "NO", data |-> <<>>]}
    \cup {[out |-> "OK", data |-> FetchData(ids, kinds)] :
              kinds \in [1..Len(ids) -> ItemKinds]}

\* the reply of a transport that does not fail
FullReply(ids) == [out |-> "OK", data |-> FetchData(ids, [n \in 1..Len(ids) |-> "rec"])]

\* replies to a single-id fetch
SingleReplies(id) ==
    {[out |-> "raise", data |-> <<>>], [out |-> "NO", data |-> <<>>],
     [out |-> "OK", data |-> <<>>], [out |-> "OK", data |-> <<id, -1>>]}

\* ------------------------------------------------ get_bulk_emails: parsing
\* batch_ids[j // 2] if j % 2 == 1 else batch_ids[j]   (0-based index)
EmailIdIndex(j) == IF j % 2 = 1 THEN j \div 2 ELSE j

RECURSIVE ProcessItems(_, _, _, _)
\* for j, item in enumerate(msg_data): ... ; raised = IndexError on batch_ids[...]
ProcessItems(acc, bids, msg_data, j) ==
    IF j >= Len(msg_data) THEN [emails |-> acc, raised |-> FALSE]
    ELSE LET item == msg_data[j + 1]
         IN IF item > 0
            THEN LET idx == EmailIdIndex(j)
                 IN IF idx >= Len(bids)
                    THEN [emails |-> acc, raised |-> TRUE]
                    ELSE ProcessItems(Put(acc, bids[idx + 1], item), bids, msg_data, j + 1)
            ELSE ProcessItems(acc, bids, msg_data, j + 1)

\* a variant that gives up on a batch that raised
FallbackIdsNone(bids) == <<>>

\* the ids re-fetched one by one after the batch raised
FallbackIds(bids) == bids

\* the test `status == 'OK' and msg_data` of the batch fetch
BatchUsable(reply) == reply.out = "OK" /\ reply.data # <<>>

\* ------------------------------------------------------------ result values
\* bulk_move_emails: the dict returned after the batches
MoveResult(moved, failed, total, det) ==
    [kind |-> "move", moved |-> moved, failed |-> failed, total |-> total,
     details |-> SubSeq(det, 1, Min(Len(det), DetailsLimit))]

\* a variant that leaves the ids of a failed call uncounted
MoveErrorUncounted(n, why) == [kind |-> "move", moved |-> 0, failed |-> 0, error |-> why]

\* bulk_move_emails: {'moved': 0, 'failed': len(email_ids), 'error': ...}
MoveError(n, why) == [kind |-> "move", moved |-> 0, failed |-> n, error |-> why]

\* bulk_mark_emails: the dict returned after the batches
MarkResult(marked, failed, total) ==
    [kind |-> "mark", marked |-> marked, failed |-> failed, total |-> total]

\* bulk_mark_emails: {'marked': 0, 'failed': len(email_ids), 'error': ...}
MarkError(n, why) == [kind |-> "mark", marked |-> 0, failed |-> n, error |-> why]

\* bulk_delete_emails(permanent=True): built from the bulk_mark_emails result
DeleteResult(r) ==
    [kind |-> "delete", deleted |-> r.marked, failed |-> r.failed, permanent |-> TRUE]

EmailsResult(d) == [kind |-> "emails", emails |-> d]

\* search_emails: the list returned
FoundResult(l) == [kind |-> "found", emails |-> l]

\* one entry of `details`
Detail(t, a, b) == [t |-> t, a |-> a, b |-> b]

\* ------------------------------------------------------------ initial state
NoCall == [op |-> "none"]

\* no rule file yet, no call on the rule store made
RulesIdle ==
    /\ store = <<>>
    /\ rcall = NoCall

NoEmail == [from |-> <<>>, to |-> <<>>, subject |-> <<>>, body |-> <<>>]

\* email_matches_rule has not been called
MatchIdle ==
    /\ email_data = NoEmail
    /\ rule = [conditions |-> <<>>]
    /\ matched = "none"

NoActions ==
    [move_to_folder |-> <<>>, mark_as_read |-> <<>>, mark_as_important |-> <<>>,
     delete |-> <<>>]

\* no apply call is running
ApplyIdle ==
    /\ chunk_size = 0
    /\ rules = <<>>
    /\ full_emails = <<>>
    /\ bulk_actions = NoActions
    /\ bulk_results = <<>>
    /\ actions_taken = 0
    /\ rule_results = <<>>
    /\ total_processed = 0
    /\ total_actions = 0
    /\ all_bulk_results = <<>>
    /\ calls = <<>>

NoInfo == [unsubscribe_methods |-> <<>>, total_methods |-> 0, has_one_click |-> FALSE]

\* no unsubscribe call, no search and no concurrent rule-store call is running
AsideIdle ==
    /\ confirm = FALSE
    /\ method_index = 0
    /\ unsubscribe_info = NoInfo
    /\ limit = 0
    /\ writers = <<>>

InitLocals ==
    /\ pc = "entry"
    /\ i = 0
    /\ k = 0
    /\ emails = {}
    /\ moved_count = 0
    /\ failed_count = 0
    /\ marked_count = 0
    /\ details = <<>>
    /\ mailbox_selected = FALSE
    /\ pending = NoPending
    /\ mark_result = NoResult
    /\ result = NoResult
    /\ exit = "running"
    /\ open = 0
    /\ log = <<>>
    /\ replay = <<>>
    /\ first = NoResult
    /\ RulesIdle
    /\ MatchIdle
    /\ ApplyIdle
    /\ AsideIdle

Flags == {"\\Seen"}
Folders == {"Archive"}

Init ==
    /\ email_ids \in IdLists
    /\ mailbox = "INBOX"
    /\ \/ /\ op = "get_bulk_emails"
          /\ batch_size \in BatchSizes
          /\ target_folder = "" /\ flag = "" /\ action = "" /\ permanent = FALSE
       \/ /\ op = "bulk_move_emails"
          /\ batch_size \in BatchSizes
          /\ target_folder \in Folders
          /\ flag = "" /\ action = "" /\ permanent = FALSE
       \/ /\ op = "bulk_mark_emails"
          /\ batch_size \in BatchSizes
          /\ flag \in Flags
          /\ action \in {"add", "remove"}
          /\ target_folder = "" /\ permanent = FALSE
       \/ /\ op = "bulk_delete_emails"
          /\ permanent \in BOOLEAN
          /\ batch_size = 0
          /\ target_folder = "" /\ flag = "" /\ action = ""
    /\ frame = op
    /\ InitLocals

inputs == <<op, permanent, email_ids, mailbox>>
callee == <<frame, target_folder, flag, action, batch_size>>
counters == <<moved_count, failed_count, marked_count, details>>
harness == <<replay, first>>
unsub == <<confirm, method_index, unsubscribe_info>>
aside == <<unsub, limit, writers>>
applying == <<chunk_size, rules, full_emails, bulk_actions, bulk_results,
              actions_taken, rule_results, total_processed, total_actions,
              all_bulk_results, calls>>
engine == <<store, rcall, email_data, rule, matched, applying>>

\* ----------------------------------------------------- return and exception
\* `return v` of the executing method, once its finally block is done.  The
\* bulk_mark_emails call made by bulk_delete_emails returns into it.
Return(v) ==
    IF op = "bulk_delete_emails" /\ frame = "bulk_mark_emails"
    THEN /\ mark_result' = v
         /\ frame' = "bulk_delete_emails"
         /\ pc' = "after_mark"
         /\ UNCHANGED <<result, exit>>
    ELSE /\ result' = v
         /\ exit' = "returned"
         /\ pc' = "done"
         /\ UNCHANGED <<mark_result, frame>>

\* an exception leaving the executing method; no caller in the client catches it
Raise ==
    /\ exit' = "raised"
    /\ pc' = "done"
    /\ UNCHANGED <<result, mark_result, frame>>

\* ------------------------------------------------------------ session steps
\* mail = self.connect_imap(): outside the try block, an exception propagates
Connect ==
    /\ pc = "connect"
    /\ \E out \in {"OK", "raise"} :
          /\ Allowed(out, <<>>)
          /\ log' = Append(log, Call("connect", frame, <<>>, "", "", out, <<>>))
          /\ IF out = "OK"
             THEN /\ pc' = "select"
                  /\ open' = open + 1
                  /\ UNCHANGED <<result, exit, mark_result, frame>>
             ELSE /\ Raise
                  /\ UNCHANGED open
    /\ mailbox_selected' = FALSE
    /\ UNCHANGED <<engine, inputs, target_folder, flag, action, batch_size, counters,
                   harness, aside, i, k, emails, pending>>

\* a variant that reports a failed select as an ordinary empty outcome
SelectFailedSilently(f) ==
    CASE f = "get_bulk_emails"    -> [kind |-> "return", val |-> EmailsResult({})]
      [] f = "bulk_move_emails"   ->
             [kind |-> "return", val |-> MoveResult(0, 0, Len(email_ids), <<>>)]
      [] f = "bulk_mark_emails"   ->
             [kind |-> "return", val |-> MarkResult(0, 0, Len(email_ids))]
      [] OTHER                    ->
             [kind |-> "return", val |-> DeleteResult(mark_result)]

\* what a non-OK status of mail.select makes the method return
SelectFailed(f) ==
    CASE f = "get_bulk_emails"    -> [kind |-> "return", val |-> EmailsResult({})]
      [] f = "search_emails"      -> [kind |-> "return", val |-> FoundResult(<<>>)]
      [] f = "get_bulk_emails_with_html" ->
             [kind |-> "return", val |-> EmailsResult({})]
      [] f = "bulk_move_emails"   ->
             [kind |-> "return", val |-> MoveError(Len(email_ids), "select")]
      [] f = "bulk_mark_emails"   ->
             [kind |-> "return", val |-> MarkError(Len(email_ids), "select")]
      [] OTHER                    ->
             [kind |-> "return", val |-> DeleteResult(mark_result)]

\* an exception raised inside the try block: the mutators catch it
\* (except Exception ... return {... 'error': str(e)}), the others do not
Caught(f) ==
    CASE f = "bulk_move_emails" ->
             [kind |-> "return", val |-> MoveError(Len(email_ids), "exception")]
      [] f = "bulk_mark_emails" ->
             [kind |-> "return", val |-> MarkError(Len(email_ids), "exception")]
      [] OTHER -> [kind |-> "raise"]

\* status, response = mail.select(mailbox)
Select ==
    /\ pc = "select"
    /\ \E out \in {"OK", "NO", "raise"} :
          /\ Allowed(out, <<>>)
          /\ log' = Append(log, Call("select", frame, <<>>, mailbox, "", out, <<>>))
          /\ CASE out = "OK" ->
                    /\ mailbox_selected' = TRUE
                    /\ pc' = IF frame = "bulk_delete_emails" THEN "expunge" ELSE "loop"
                    /\ UNCHANGED pending
               [] out = "NO" ->
                    /\ pending' = SelectFailed(frame)
                    /\ pc' = "finally"
                    /\ UNCHANGED mailbox_selected
               [] OTHER ->
                    /\ pending' = Caught(frame)
                    /\ pc' = "finally"
                    /\ UNCHANGED mailbox_selected
    /\ i' = 0
    /\ UNCHANGED <<engine, inputs, callee, counters, harness, aside, k, emails, mark_result,
                   result, exit, open>>

\* finally: if mailbox_selected: mail.close()  -- an exception raised here
\* leaves the finally block at once, before mail.logout()
Close ==
    /\ pc = "finally"
    /\ mailbox_selected
    /\ \E out \in {"OK", "raise"} :
          /\ Allowed(out, <<>>)
          /\ log' = Append(log, Call("close", frame, <<>>, mailbox, "", out, <<>>))
          /\ IF out = "OK"
             THEN /\ pc' = "logout"
                  /\ UNCHANGED <<result, exit, mark_result, frame>>
             ELSE Raise
    /\ UNCHANGED <<engine, inputs, target_folder, flag, action, batch_size, counters,
                   harness, aside, i, k, emails, mailbox_selected, pending, open>>

\* finally: mail.logout(); then the pending return or exception takes effect
Logout ==
    /\ pc = "logout" \/ (pc = "finally" /\ ~mailbox_selected)
    /\ \E out \in {"OK", "raise"} :
          /\ Allowed(out, <<>>)
          /\ log' = Append(log, Call("logout", frame, <<>>, "", "", out, <<>>))
          /\ open' = open - 1
          /\ IF out = "OK" /\ pending.kind = "return"
             THEN Return(pending.val)
             ELSE Raise
    /\ UNCHANGED <<engine, inputs, target_folder, flag, action, batch_size, counters,
                   harness, aside, i, k, emails, mailbox_selected, pending>>

\* ---------------------------------------------------------- get_bulk_emails
\* if not email_ids: return {}
GetBulkEntry ==
    /\ pc = "entry" /\ frame = "get_bulk_emails"
    /\ IF email_ids = <<>>
       THEN Return(EmailsResult({}))
       ELSE /\ pc' = "connect"
            /\ UNCHANGED <<result, exit, mark_result, frame>>
    /\ emails' = {}
    /\ UNCHANGED <<engine, inputs, target_folder, flag, action, batch_size, counters,
                   harness, aside, i, k, mailbox_selected, pending, open, log>>

\* one iteration of the batch loop: the multi-id fetch and the parsing of its
\* reply; or, past the last batch, the fall through to `return emails`
GetBulkBatch ==
    /\ pc = "loop" /\ frame = "get_bulk_emails"
    /\ IF i >= Len(email_ids)
       THEN /\ pending' = [kind |-> "return", val |-> EmailsResult(emails)]
            /\ pc' = "finally"
            /\ UNCHANGED <<i, k, emails, log>>
       ELSE \E reply \in FetchReplies(batch_ids) :
               /\ Allowed(reply.out, reply.data)
               /\ log' = Append(log, Call("fetch", "batch", batch_ids, mailbox,
                                          "(RFC822)", reply.out, reply.data))
               /\ UNCHANGED pending
               /\ IF reply.out = "raise"
                  THEN /\ pc' = IF FallbackIds(batch_ids) = <<>> THEN "loop" ELSE "single"
                       /\ k' = 1
                       /\ i' = IF FallbackIds(batch_ids) = <<>> THEN i + batch_size ELSE i
                       /\ UNCHANGED emails
                  ELSE IF BatchUsable(reply)
                  THEN LET r == ProcessItems(emails, batch_ids, reply.data, 0)
                       IN /\ emails' = r.emails
                          /\ IF r.raised /\ FallbackIds(batch_ids) # <<>>
                             THEN /\ pc' = "single"
                                  /\ k' = 1
                                  /\ UNCHANGED i
                             ELSE /\ pc' = "loop"
                                  /\ i' = i + batch_size
                                  /\ UNCHANGED k
                  ELSE /\ pc' = "loop"
                       /\ i' = i + batch_size
                       /\ UNCHANGED <<k, emails>>
    /\ UNCHANGED <<engine, inputs, callee, counters, harness, aside, mailbox_selected,
                   mark_result, result, exit, open>>

\* the fallback loop `for email_id in batch_ids`: one single-id fetch
GetBulkSingle ==
    /\ pc = "single" /\ frame = "get_bulk_emails"
    /\ LET fids == FallbackIds(batch_ids)
           email_id == fids[k]
       IN \E reply \in SingleReplies(email_id) :
             /\ Allowed(reply.out, reply.data)
             /\ log' = Append(log, Call("fetch", "single", <<email_id>>, mailbox,
                                        "(RFC822)", reply.out, reply.data))
             /\ emails' = IF reply.out = "OK" /\ reply.data # <<>> /\ reply.data[1] > 0
                          THEN Put(emails, email_id, reply.data[1])
                          ELSE emails
             /\ IF k < Len(fids)
                THEN /\ k' = k + 1
                     /\ UNCHANGED <<pc, i>>
                ELSE /\ pc' = "loop"
                     /\ i' = i + batch_size
                     /\ UNCHANGED k
    /\ UNCHANGED <<engine, inputs, callee, counters, harness, aside, mailbox_selected, pending,
                   mark_result, result, exit, open>>

\* --------------------------------------------------------- bulk_move_emails
\* if not email_ids: return {'moved': 0, 'failed': 0, 'details': []}
BulkMoveEntry ==
    /\ pc = "entry" /\ frame = "bulk_move_emails"
    /\ IF email_ids = <<>>
       THEN Return([kind |-> "move", moved |-> 0, failed |-> 0, details |-> <<>>])
       ELSE /\ pc' = "connect"
            /\ UNCHANGED <<result, exit, mark_result, frame>>
    /\ moved_count' = 0
    /\ failed_count' = 0
    /\ details' = <<>>
    /\ UNCHANGED <<engine, inputs, target_folder, flag, action, batch_size, marked_count,
                   harness, aside, i, k, emails, mailbox_selected, pending, open, log>>

\* the loop position after the current batch
NextBatch ==
    /\ i' = i + batch_size
    /\ pc' = "loop"

\* the position after the k-th id of a per-id fallback loop
NextSingle(loop) ==
    IF k < Len(batch_ids)
    THEN /\ k' = k + 1
         /\ pc' = loop
         /\ UNCHANGED i
    ELSE /\ NextBatch
         /\ UNCHANGED k

\* result = mail.copy(id_list, target_folder)
MoveBatchCopy ==
    /\ pc = "loop" /\ frame = "bulk_move_emails"
    /\ i < Len(email_ids)
    /\ \E out \in {"OK", "NO", "raise"} :
          /\ Allowed(out, <<>>)
          /\ log' = Append(log, Call("copy", "batch", batch_ids, mailbox,
                                     target_folder, out, <<>>))
          /\ pc' = CASE out = "OK" -> "batch_store"
                     [] out = "NO" -> "else_copy"
                     [] OTHER      -> "except_copy"
    /\ k' = 1
    /\ UNCHANGED <<engine, inputs, callee, counters, harness, aside, i, emails, mailbox_selected,
                   pending, mark_result, result, exit, open>>

\* mail.store(id_list, '+FLAGS', '\\Deleted'); moved_count += len(batch_ids)
\* -- the status it returns is not looked at; an exception goes to the
\* `except` of the batch, which moves the ids of the batch one by one
MoveBatchStore ==
    /\ pc = "batch_store" /\ frame = "bulk_move_emails"
    /\ \E out \in {"OK", "NO", "raise"} :
          /\ Allowed(out, <<>>)
          /\ log' = Append(log, Call("store", "batch", batch_ids, mailbox,
                                     "+FLAGS \\Deleted", out, <<>>))
          /\ IF out = "raise"
             THEN /\ pc' = "except_copy"
                  /\ k' = 1
                  /\ UNCHANGED <<i, moved_count, details>>
             ELSE /\ moved_count' = moved_count + Len(batch_ids)
                  /\ details' = Append(details,
                                       Detail("moved batch", (i \div batch_size) + 1,
                                              Len(batch_ids)))
                  /\ NextBatch
                  /\ UNCHANGED k
    /\ UNCHANGED <<engine, inputs, callee, failed_count, marked_count, harness, aside, emails,
                   mailbox_selected, pending, mark_result, result, exit, open>>

\* the per-id copy of either fallback loop.  In the `else` branch a non-OK
\* copy appends "Failed to move email"; in the `except` branch it does not.
MoveSingleCopy ==
    /\ pc \in {"else_copy", "except_copy"} /\ frame = "bulk_move_emails"
    /\ LET email_id == batch_ids[k]
       IN \E out \in {"OK", "NO", "raise"} :
             /\ Allowed(out, <<>>)
             /\ log' = Append(log, Call("copy", "single", <<email_id>>, mailbox,
                                        target_folder, out, <<>>))
             /\ CASE out = "OK" ->
                       /\ pc' = IF pc = "else_copy" THEN "else_store" ELSE "except_store"
                       /\ UNCHANGED <<i, k, failed_count, details>>
                  [] out = "NO" ->
                       /\ failed_count' = failed_count + 1
                       /\ details' = IF pc = "else_copy"
                                     THEN Append(details, Detail("failed", email_id, 0))
                                     ELSE details
                       /\ NextSingle(pc)
                  [] OTHER ->
                       /\ failed_count' = failed_count + 1
                       /\ details' = Append(details, Detail("error", email_id, 0))
                       /\ NextSingle(pc)
    /\ UNCHANGED <<engine, inputs, callee, moved_count, marked_count, harness, aside, emails,
                   mailbox_selected, pending, mark_result, result, exit, open>>

\* mail.store(email_id, '+FLAGS', '\\Deleted'); moved_count += 1
MoveSingleStore ==
    /\ pc \in {"else_store", "except_store"} /\ frame = "bulk_move_emails"
    /\ LET email_id == batch_ids[k]
           loop == IF pc = "else_store" THEN "else_copy" ELSE "except_copy"
       IN \E out \in {"OK", "NO", "raise"} :
             /\ Allowed(out, <<>>)
             /\ log' = Append(log, Call("store", "single", <<email_id>>, mailbox,
                                        "+FLAGS \\Deleted", out, <<>>))
             /\ IF out = "raise"
                THEN /\ failed_count' = failed_count + 1
                     /\ details' = Append(details, Detail("error", email_id, 0))
                     /\ UNCHANGED moved_count
                ELSE /\ moved_count' = moved_count + 1
                     /\ UNCHANGED <<failed_count, details>>
             /\ NextSingle(loop)
    /\ UNCHANGED <<engine, inputs, callee, marked_count, harness, aside, emails,
                   mailbox_selected, pending, mark_result, result, exit, open>>

\* a variant that expunges whatever was counted
ShouldExpungeAlways(moved) == moved >= 0

\* the test `if moved_count > 0` that guards mail.expunge()
ShouldExpunge(moved) == moved > 0

\* after the loop: if moved_count > 0: mail.expunge(); an exception goes to
\* the outer `except`, which returns {'moved': 0, 'failed': len(email_ids)}
MoveExpunge ==
    /\ pc = "loop" /\ frame = "bulk_move_emails"
    /\ i >= Len(email_ids)
    /\ IF ShouldExpunge(moved_count)
       THEN \E out \in {"OK", "NO", "raise"} :
               /\ Allowed(out, <<>>)
               /\ log' = Append(log, Call("expunge", "final", <<>>, mailbox, "",
                                          out, <<>>))
               /\ pending' =
                     IF out = "raise"
                     THEN Caught(frame)
                     ELSE [kind |-> "return",
                           val |-> MoveResult(moved_count, failed_count,
                                              Len(email_ids), details)]
       ELSE /\ pending' = [kind |-> "return",
                           val |-> MoveResult(moved_count, failed_count,
                                              Len(email_ids), details)]
            /\ UNCHANGED log
    /\ pc' = "finally"
    /\ UNCHANGED <<engine, inputs, callee, counters, harness, aside, i, k, emails,
                   mailbox_selected, mark_result, result, exit, open>>

\* --------------------------------------------------------- bulk_mark_emails
\* a variant that always sets the flag
FlagActionAdd(a) == "+FLAGS"

\* flag_action = '+FLAGS' if action == 'add' else '-FLAGS'
FlagAction(a) == IF a = "add" THEN "+FLAGS" ELSE "-FLAGS"

\* if not email_ids: return {'marked': 0, 'failed': 0}
BulkMarkEntry ==
    /\ pc = "entry" /\ frame = "bulk_mark_emails"
    /\ IF email_ids = <<>>
       THEN Return([kind |-> "mark", marked |-> 0, failed |-> 0])
       ELSE /\ pc' = "connect"
            /\ UNCHANGED <<result, exit, mark_result, frame>>
    /\ marked_count' = 0
    /\ failed_count' = 0
    /\ UNCHANGED <<engine, inputs, target_folder, flag, action, batch_size, moved_count,
                   details, harness, aside, i, k, emails, mailbox_selected, pending,
                   open, log>>

\* result = mail.store(id_list, flag_action, flag); past the last batch, the
\* fall through to the final return
MarkBatch ==
    /\ pc = "loop" /\ frame = "bulk_mark_emails"
    /\ IF i >= Len(email_ids)
       THEN /\ pending' = [kind |-> "return",
                           val |-> MarkResult(marked_count, failed_count,
                                              Len(email_ids))]
            /\ pc' = "finally"
            /\ UNCHANGED <<i, k, marked_count, log>>
       ELSE \E out \in {"OK", "NO", "raise"} :
               /\ Allowed(out, <<>>)
               /\ log' = Append(log, Call("store", "batch", batch_ids, mailbox,
                                          FlagAction(action) \o " " \o flag, out, <<>>))
               /\ UNCHANGED pending
               /\ IF out = "OK"
                  THEN /\ marked_count' = marked_count + Len(batch_ids)
                       /\ NextBatch
                       /\ UNCHANGED k
                  ELSE /\ pc' = "single"
                       /\ k' = 1
                       /\ UNCHANGED <<i, marked_count>>
    /\ UNCHANGED <<engine, inputs, callee, moved_count, failed_count, details, harness, aside,
                   emails, mailbox_selected, mark_result, result, exit, open>>

\* the per-id store of the fallback loops (both have the same body)
MarkSingle ==
    /\ pc = "single" /\ frame = "bulk_mark_emails"
    /\ LET email_id == batch_ids[k]
       IN \E out \in {"OK", "NO", "raise"} :
             /\ Allowed(out, <<>>)
             /\ log' = Append(log, Call("store", "single", <<email_id>>, mailbox,
                                        FlagAction(action) \o " " \o flag, out, <<>>))
             /\ IF out = "OK"
                THEN /\ marked_count' = marked_count + 1
                     /\ UNCHANGED failed_count
                ELSE /\ failed_count' = failed_count + 1
                     /\ UNCHANGED marked_count
             /\ NextSingle("single")
    /\ UNCHANGED <<engine, inputs, callee, moved_count, details, harness, aside, emails,
                   mailbox_selected, pending, mark_result, result, exit, open>>

\* ------------------------------------------------------- bulk_delete_emails
\* a variant that soft-deletes into another folder
TrashFolderOther == "Deleted Items"

\* the folder soft-deleted messages are moved to
TrashFolder == "Trash"

\* if permanent: result = self.bulk_mark_emails(email_ids, '\\Deleted', 'add', mailbox)
\* else: return self.bulk_move_emails(email_ids, 'Trash', mailbox)
BulkDeleteEntry ==
    /\ pc = "entry" /\ frame = "bulk_delete_emails"
    /\ IF permanent
       THEN /\ frame' = "bulk_mark_emails"
            /\ flag' = "\\Deleted"
            /\ action' = "add"
            /\ batch_size' = DefaultMarkBatchSize
            /\ UNCHANGED target_folder
       ELSE /\ frame' = "bulk_move_emails"
            /\ target_folder' = TrashFolder
            /\ batch_size' = DefaultMoveBatchSize
            /\ UNCHANGED <<flag, action>>
    /\ pc' = "entry"
    /\ UNCHANGED <<engine, inputs, counters, harness, aside, i, k, emails, mailbox_selected,
                   pending, mark_result, result, exit, open, log>>

\* if result['marked'] > 0: open a second session for the expunge;
\* otherwise return {'deleted': ..., 'failed': ..., 'permanent': True}
DeleteAfterMark ==
    /\ pc = "after_mark" /\ frame = "bulk_delete_emails"
    /\ IF mark_result.marked > 0
       THEN /\ pc' = "connect"
            /\ UNCHANGED <<result, exit>>
       ELSE /\ result' = DeleteResult(mark_result)
            /\ exit' = "returned"
            /\ pc' = "done"
    /\ UNCHANGED <<engine, inputs, callee, counters, harness, aside, i, k, emails,
                   mailbox_selected, pending, mark_result, open, log>>

\* mail.expunge() of the second session; no except clause around it
DeleteExpunge ==
    /\ pc = "expunge" /\ frame = "bulk_delete_emails"
    /\ \E out \in {"OK", "NO", "raise"} :
          /\ Allowed(out, <<>>)
          /\ log' = Append(log, Call("expunge", "final", <<>>, mailbox, "", out, <<>>))
          /\ pending' = IF out = "raise"
                        THEN [kind |-> "raise"]
                        ELSE [kind |-> "return", val |-> DeleteResult(mark_result)]
    /\ pc' = "finally"
    /\ UNCHANGED <<engine, inputs, callee, counters, harness, aside, i, k, emails,
                   mailbox_selected, mark_result, result, exit, open>>

\* ------------------------------------------------------------ specification
Next ==
    \/ Connect
    \/ Select
    \/ Close
    \/ Logout
    \/ GetBulkEntry
    \/ GetBulkBatch
    \/ GetBulkSingle
    \/ BulkMoveEntry
    \/ MoveBatchCopy
    \/ MoveBatchStore
    \/ MoveSingleCopy
    \/ MoveSingleStore
    \/ MoveExpunge
    \/ BulkMarkEntry
    \/ MarkBatch
    \/ MarkSingle
    \/ BulkDeleteEntry
    \/ DeleteAfterMark
    \/ DeleteExpunge

Spec == Init /\ [][Next]_vars

\* ------------------------------------------------------------ the MCP tools
\* Every tool body is `try: ... except Exception as e: return {"error": ...}`
\* around one call of the client method of the same name.  A tool makes no
\* transport call of its own, so its return value is a function of how the
\* client method ended.

\* {"error": f"Failed to ...: {str(e)}"} and {"error": "No valid email IDs provided"}
ToolError(why) == [error |-> why]

\* result.get(key, default)
RGet(r, key, default) == IF key \in DOMAIN r THEN r[key] ELSE default

\* bulk_move_emails (tool): the dict built from the client's result
ToolBulkMove(r) ==
    [status |-> "success", moved |-> RGet(r, "moved", 0),
     failed |-> RGet(r, "failed", 0), total |-> RGet(r, "total", 0),
     details |-> RGet(r, "details", <<>>)]

\* bulk_mark_emails_as_read (tool)
ToolBulkMark(r, act) ==
    [status |-> "success", marked |-> RGet(r, "marked", 0),
     failed |-> RGet(r, "failed", 0), total |-> RGet(r, "total", 0),
     action |-> IF act = "add" THEN "marked_as_read" ELSE "marked_as_unread"]

\* bulk_delete_emails (tool)
ToolBulkDelete(r, id_list, perm) ==
    [status |-> "success", deleted |-> RGet(r, "deleted", 0),
     moved |-> RGet(r, "moved", 0), failed |-> RGet(r, "failed", 0),
     total |-> Len(id_list), permanent |-> perm]

\* bulk_get_emails (tool): one entry per requested id, in request order
ToolBulkGet(emails_dict, id_list) ==
    [n \in 1..Len(id_list) |->
        IF id_list[n] \in Keys(emails_dict)
        THEN [id |-> id_list[n],
              email |-> (CHOOSE p \in emails_dict : p[1] = id_list[n])[2]]
        ELSE [id |-> id_list[n], error |-> "Email not found or could not be retrieved"]]

\* what the tool of operation `o` returns, given the parsed id list and the
\* way the client call ended ("returned" with value r, or "raised")
ToolReturn(o, id_list, perm, act, how, r) ==
    IF id_list = <<>> THEN ToolError("No valid email IDs provided")
    ELSE IF how = "raised" THEN ToolError("Failed")
    ELSE CASE o = "get_bulk_emails"    -> ToolBulkGet(r.emails, id_list)
           [] o = "bulk_move_emails"   -> ToolBulkMove(r)
           [] o = "bulk_mark_emails"   -> ToolBulkMark(r, act)
           [] OTHER                    -> ToolBulkDelete(r, id_list, perm)

\* the value the tool hands to its caller once the client call has ended
reply == ToolReturn(op, email_ids, permanent, action, exit, result)

\* --------------------------------------- comparing two operations run by run
\* bulk_delete_emails(ids, mailbox, permanent=False) is run first; then
\* bulk_move_emails(ids, 'Trash', mailbox) is run against a session that
\* answers each call as it answered the first run.
InitEquiv ==
    /\ email_ids \in IdLists
    /\ mailbox = "INBOX"
    /\ op = "bulk_delete_emails"
    /\ permanent = FALSE
    /\ batch_size = 0
    /\ target_folder = "" /\ flag = "" /\ action = ""
    /\ frame = op
    /\ InitLocals

SecondRun ==
    /\ pc = "done"
    /\ first = NoResult
    /\ first' = [kind |-> "run", result |-> result, exit |-> exit, log |-> log]
    /\ replay' = log
    /\ op' = "bulk_move_emails"
    /\ frame' = "bulk_move_emails"
    /\ target_folder' = "Trash"
    /\ batch_size' = DefaultMoveBatchSize
    /\ pc' = "entry"
    /\ i' = 0
    /\ k' = 0
    /\ moved_count' = 0
    /\ failed_count' = 0
    /\ details' = <<>>
    /\ mailbox_selected' = FALSE
    /\ pending' = NoPending
    /\ result' = NoResult
    /\ exit' = "running"
    /\ open' = 0
    /\ log' = <<>>
    /\ UNCHANGED <<engine, aside, permanent, email_ids, mailbox, flag, action,
                   marked_count, emails, mark_result>>

NextEquiv ==
    \/ Connect
    \/ Select
    \/ Close
    \/ Logout
    \/ BulkDeleteEntry
    \/ BulkMoveEntry
    \/ MoveBatchCopy
    \/ MoveBatchStore
    \/ MoveSingleCopy
    \/ MoveSingleStore
    \/ MoveExpunge
    \/ SecondRun

SpecEquiv == InitEquiv /\ [][NextEquiv]_vars

\* ---------------------------------------------------------- the rule store
\* A JSON object is modelled by the sequence of its <<key, value>> pairs, a
\* string value by the sequence of its characters, a rule identifier
\* str(n) by the number n.
MaxRules == 2        \* the rule file holds at most MaxRules rs

ValidConditions ==
    {"from", "to", "subject_contains", "subject_equals", "body_contains",
     "sender_domain", "has_attachments", "older_than_days", "newer_than_days"}

ValidActions ==
    {"move_to_folder", "mark_as_read", "mark_as_important", "delete",
     "forward_to", "auto_reply"}

\* dict.keys()
DictKeys(d) == {d[n][1] : n \in 1..Len(d)}

RuleNames == {"news", "bills"}
RuleIds == 1..(MaxRules + 1)

\* the `conditions` and `actions` arguments a caller may pass
ConditionInputs ==
    { << <<"subject_contains", <<"a">> >> >>,
      << <<"subject_contains", <<"a">> >>, <<"larger_than", <<"a">> >> >> }

ActionInputs ==
    { << <<"mark_as_read", "true">> >>,
      << <<"mark_as_read", "true">>, <<"run_script", "true">> >> }

\* any(rule['name'] == rule_name for rule in rules)
NameTaken(rs, rule_name) == \E n \in 1..Len(rs) : rs[n].name = rule_name

\* the two validation loops over conditions.keys() and actions.keys()
KeysValid(conditions, actions) ==
    /\ DictKeys(conditions) \subseteq ValidConditions
    /\ DictKeys(actions) \subseteq ValidActions

\* new_rule = {'id': str(len(rules) + 1), ...}
NewRule(rs, rule_name, conditions, actions, enabled) ==
    [id |-> Len(rs) + 1, name |-> rule_name, conditions |-> conditions,
     actions |-> actions, enabled |-> enabled, last_applied |-> "None",
     emails_processed |-> 0]

\* a variant that stores whatever it is given
CreateFilterRuleUnchecked(rs, rule_name, conditions, actions, enabled) ==
    [save |-> TRUE,
     rules |-> Append(rs, NewRule(rs, rule_name, conditions, actions,
                                     enabled))]

\* create_filter_rule up to its save: [save |-> FALSE] is `return False`,
\* otherwise `rules` is the list handed to save_filter_rules
CreateFilterRule(rs, rule_name, conditions, actions, enabled) ==
    IF NameTaken(rs, rule_name) \/ ~KeysValid(conditions, actions)
    THEN [save |-> FALSE, rules |-> rs]
    ELSE [save |-> TRUE,
          rules |-> Append(rs, NewRule(rs, rule_name, conditions, actions,
                                          enabled))]

\* updated_rules = [rule for rule in rules if rule['id'] != rule_id]
DeleteFilterRule(rs, rule_id) ==
    LET updated_rules == SelectSeq(rs, LAMBDA r : r.id # rule_id)
    IN IF Len(updated_rules) = Len(rs)
       THEN [save |-> FALSE, rules |-> rs]
       ELSE [save |-> TRUE, rules |-> updated_rules]

\* rule.update(updates)
DictUpdate(r, updates) ==
    [f \in DOMAIN r |-> IF f \in DOMAIN updates THEN updates[f] ELSE r[f]]

\* update_filter_rule: the first rule holding rule_id is updated
UpdateFilterRule(rs, rule_id, updates) ==
    IF \E n \in 1..Len(rs) : rs[n].id = rule_id
    THEN LET n == CHOOSE m \in 1..Len(rs) :
                      /\ rs[m].id = rule_id
                      /\ \A j \in 1..(m - 1) : rs[j].id # rule_id
         IN [save |-> TRUE, rules |-> [rs EXCEPT ![n] = DictUpdate(@, updates)]]
    ELSE [save |-> FALSE, rules |-> rs]

\* save_filter_rules: the file is rewritten ("ok"), cannot be opened ("fail"),
\* or is cut short while written and from then on reads back as []
SaveOutcomes == {"ok", "fail", "cut"}

\* a variant of the save that keeps the rules of the file it overwrites
SavedKeepingOthers(old, rs, out) ==
    CASE out = "ok"   -> rs \o SelectSeq(old, LAMBDA r : ~NameTaken(rs, r.name))
      [] out = "fail" -> old
      [] OTHER        -> <<>>

Saved(old, rs, out) ==
    CASE out = "ok"   -> rs
      [] out = "fail" -> old
      [] OTHER        -> <<>>

\* the end of a handler: `return False`, or `return self.save_filter_rules(..)`
Finish(call, r) ==
    IF r.save
    THEN \E out \in SaveOutcomes :
            /\ store' = Saved(store, r.rules, out)
            /\ rcall' = [call EXCEPT !.ok = (out = "ok"), !.saved = TRUE]
    ELSE /\ store' = store
         /\ rcall' = call

bulk == <<applying, email_data, rule, matched, inputs, callee, counters, harness, aside, pc, i, k, emails, mailbox_selected,
          pending, mark_result, result, exit, open, log>>

\* tool create_filter_rule -> ProtonEmailClient.create_filter_rule
CreateRule ==
    /\ Len(store) < MaxRules
    /\ \E rule_name \in RuleNames, conditions \in ConditionInputs,
          actions \in ActionInputs, enabled \in BOOLEAN :
          Finish([op |-> "create", name |-> rule_name, conditions |-> conditions,
                  actions |-> actions, ok |-> FALSE, saved |-> FALSE],
                 CreateFilterRule(store, rule_name, conditions, actions, enabled))
    /\ UNCHANGED bulk

\* tool delete_filter_rule -> ProtonEmailClient.delete_filter_rule
DeleteRule ==
    /\ \E rule_id \in RuleIds :
          Finish([op |-> "delete", ok |-> FALSE, saved |-> FALSE],
                 DeleteFilterRule(store, rule_id))
    /\ UNCHANGED bulk

\* tool update_filter_rule: updates holds 'enabled', 'name', 'conditions' or
\* 'actions' as given; the tool refuses an empty update before any load
UpdateRule ==
    /\ \E rule_id \in RuleIds :
          LET Do(updates) ==
                  Finish([op |-> "update", ok |-> FALSE, saved |-> FALSE],
                         UpdateFilterRule(store, rule_id, updates))
          IN \/ \E rule_name \in RuleNames : Do([name |-> rule_name])
             \/ \E enabled \in BOOLEAN : Do([enabled |-> enabled])
             \/ \E conditions \in ConditionInputs : Do([conditions |-> conditions])
             \/ \E actions \in ActionInputs : Do([actions |-> actions])
    /\ UNCHANGED bulk

\* nothing of the bulk engine runs while the rule store is exercised
SessionIdle ==
    /\ permanent = FALSE
    /\ target_folder = "" /\ flag = "" /\ action = ""
    /\ batch_size = 0
    /\ emails = {}
    /\ moved_count = 0 /\ failed_count = 0 /\ marked_count = 0
    /\ details = <<>>
    /\ mailbox_selected = FALSE
    /\ pending = NoPending
    /\ mark_result = NoResult
    /\ open = 0
    /\ log = <<>>
    /\ replay = <<>>
    /\ first = NoResult

BulkIdle ==
    /\ op = "none" /\ frame = "none"
    /\ email_ids = <<>>
    /\ mailbox = "INBOX"
    /\ pc = "idle"
    /\ i = 0 /\ k = 0
    /\ result = NoResult
    /\ exit = "running"
    /\ SessionIdle

InitRules == BulkIdle /\ RulesIdle /\ MatchIdle /\ ApplyIdle /\ AsideIdle

NextRules ==
    \/ CreateRule
    \/ DeleteRule
    \/ UpdateRule

SpecRules == InitRules /\ [][NextRules]_vars

\* ------------------------------------------------------- email_matches_rule
MaxLen == 2          \* strings hold at most MaxLen characters

Chars == {"a", "A", "@"}

\* str.lower() on one character
LowerChar(c) == IF c = "A" THEN "a" ELSE c

\* str.lower()
Lower(str) == [n \in 1..Len(str) |-> LowerChar(str[n])]

\* a variant that only looks at the start of the text
ContainsAtStart(needle, hay) ==
    Len(needle) <= Len(hay) /\ SubSeq(hay, 1, Len(needle)) = needle

\* needle in hay
Contains(needle, hay) ==
    \E start \in 0..(Len(hay) - Len(needle)) :
        SubSeq(hay, start + 1, start + Len(needle)) = needle

RECURSIVE LastPart(_)
\* sender.split('@')[-1]
LastPart(str) ==
    IF str = <<>> THEN <<>>
    ELSE LET rest == LastPart(Tail(str))
         IN IF "@" \in Range(Tail(str)) THEN rest
            ELSE IF Head(str) = "@" THEN Tail(str)
            ELSE str

\* domain = sender.split('@')[-1] if '@' in sender else ''
SenderDomain(sender) == IF "@" \in Range(sender) THEN LastPart(sender) ELSE <<>>

\* the test of one condition: TRUE is `return False`
ConditionFails(condition, value, email) ==
    CASE condition = "from" -> ~Contains(Lower(value), Lower(email.from))
      [] condition = "to" -> ~Contains(Lower(value), Lower(email.to))
      [] condition = "subject_contains" ->
             ~Contains(Lower(value), Lower(email.subject))
      [] condition = "subject_equals" -> Lower(value) # Lower(email.subject)
      [] condition = "body_contains" -> ~Contains(Lower(value), Lower(email.body))
      [] condition = "sender_domain" ->
             Lower(value) # Lower(SenderDomain(email.from))
      [] OTHER -> FALSE

RECURSIVE MatchFrom(_, _, _)
\* for condition, value in conditions.items(): ... return False ... return True
MatchFrom(email, conditions, n) ==
    IF n > Len(conditions) THEN TRUE
    ELSE IF ConditionFails(conditions[n][1], conditions[n][2], email) THEN FALSE
    ELSE MatchFrom(email, conditions, n + 1)

EmailMatchesRule(email, r) == MatchFrom(email, r.conditions, 1)

RECURSIVE StringsOfLen(_)
StringsOfLen(n) ==
    IF n = 0 THEN {<<>>}
    ELSE {<<c>> \o str : c \in Chars, str \in StringsOfLen(n - 1)}

Strings == UNION {StringsOfLen(n) : n \in 0..MaxLen}

\* the condition keys a stored rule may hold: create_filter_rule admits the
\* nine valid ones, update_filter_rule any key
ConditionKeys == ValidConditions \cup {"larger_than"}

Conditions == {<<key, value>> : key \in ConditionKeys, value \in Strings}

SecondConditions ==
    { <<"body_contains", <<"a", "A">> >>, <<"to", <<"@">> >>,
      <<"has_attachments", <<"a">> >> }

\* condition dicts of zero, one and two entries (keys are distinct)
ConditionDicts ==
    {<<>>} \cup {<<c>> : c \in Conditions}
    \cup {<<c, d>> : c \in {x \in Conditions : x[1] \notin {"body_contains", "to",
                                                          "has_attachments"}},
                     d \in SecondConditions}

Emails ==
    [from : Strings, to : {<<"a">>}, subject : {<<>>, <<"a">>, <<"A", "a">>},
     body : {<<"A", "a">>}]

InitMatch ==
    /\ BulkIdle
    /\ AsideIdle
    /\ RulesIdle
    /\ ApplyIdle
    /\ email_data \in Emails
    /\ rule \in [conditions : ConditionDicts]
    /\ matched = "none"

\* matched = self.email_matches_rule(email_data, rule)
MatchRule ==
    /\ matched = "none"
    /\ matched' = IF EmailMatchesRule(email_data, rule) THEN "True" ELSE "False"
    /\ UNCHANGED <<applying, email_data, rule, store, rcall, inputs, callee, counters,
                   harness, aside, pc, i, k, emails, mailbox_selected, pending,
                   mark_result, result, exit, open, log>>

NextMatch == MatchRule

SpecMatch == InitMatch /\ [][NextMatch]_vars

\* ------------------------------------------------------------ is_junk_email
MaxWords == 2        \* a subject is made of at most MaxWords pieces

\* the characters of a string literal, one by one
Str(s) == [n \in 1..Len(s) |-> SubSeq(s, n, n)]

UpperCase == Str("ABCDEFGHIJKLMNOPQRSTUVWXYZ")
LowerCase == Str("abcdefghijklmnopqrstuvwxyz")

\* c.isupper()
IsUpper(c) == c \in Range(UpperCase)

\* str.lower() on any character
ToLowerChar(c) ==
    IF IsUpper(c) THEN LowerCase[CHOOSE n \in 1..26 : UpperCase[n] = c] ELSE c

\* str.lower()
ToLower(str) == [n \in 1..Len(str) |-> ToLowerChar(str[n])]

\* A pattern is a set of alternatives (a|b); an alternative is a list of
\* literal parts joined by `.*`, with or without a closing `$`.
Alt(parts, dollar) == [parts |-> [n \in 1..Len(parts) |-> Str(parts[n])], dollar |-> dollar]

\* r'urgent.*action.*required', ...
spam_subject_patterns ==
    << {Alt(<<"urgent", "action", "required">>, FALSE)},
       {Alt(<<"congratulations", "won">>, FALSE)},
       {Alt(<<"free", "money">>, FALSE), Alt(<<"money", "free">>, FALSE)},
       {Alt(<<"limited", "time", "offer">>, FALSE)},
       {Alt(<<"act", "now">>, FALSE), Alt(<<"click", "here">>, FALSE)},
       {Alt(<<"viagra">>, FALSE), Alt(<<"cialis">>, FALSE), Alt(<<"pharmacy">>, FALSE)},
       {Alt(<<"increase", "size">>, FALSE)},
       {Alt(<<"lose", "weight", "fast">>, FALSE)},
       {Alt(<<"make", "money", "fast">>, FALSE)},
       {Alt(<<"nigerian", "prince">>, FALSE)},
       {Alt(<<"tax", "refund">>, FALSE)},
       {Alt(<<"security", "alert">>, FALSE)},
       {Alt(<<"re:", "re:", "re:">>, FALSE)} >>

\* r'noreply@.*\.tk$', r'.*@.*\.ml$', ...
suspicious_sender_patterns ==
    << {Alt(<<"noreply@", ".tk">>, TRUE)},
       {Alt(<<"@", ".ml">>, TRUE)},
       {Alt(<<"@", ".ga">>, TRUE)},
       {Alt(<<"admin@">>, FALSE)},
       {Alt(<<"support@">>, FALSE)},
       {Alt(<<"security@">>, FALSE)} >>

\* r'click.*here.*now', ...
spam_body_patterns ==
    << {Alt(<<"click", "here", "now">>, FALSE)},
       {Alt(<<"urgent", "respond">>, FALSE)},
       {Alt(<<"verify", "account", "immediately">>, FALSE)},
       {Alt(<<"suspended", "account">>, FALSE)},
       {Alt(<<"winner", "lottery">>, FALSE)},
       {Alt(<<"inheritance", "million">>, FALSE)},
       {Alt(<<"bitcoin", "investment">>, FALSE)},
       {Alt(<<"crypto", "opportunity">>, FALSE)} >>

\* `$`: at the end of the text, or just before a newline that ends it
AtEnd(text, pos) ==
    pos = Len(text) \/ (pos = Len(text) - 1 /\ text[Len(text)] = "\n")

RECURSIVE PartsFrom(_, _, _, _)
\* the parts from the n-th on match somewhere at or after pos; `.` does not
\* match a newline, so the stretch between two parts holds none
PartsFrom(alt, n, text, pos) ==
    IF n > Len(alt.parts) THEN alt.dollar => AtEnd(text, pos)
    ELSE LET part == alt.parts[n]
         IN \E start \in pos..(Len(text) - Len(part)) :
               /\ SubSeq(text, start + 1, start + Len(part)) = part
               /\ n > 1 => \A g \in (pos + 1)..start : text[g] # "\n"
               /\ PartsFrom(alt, n + 1, text, start + Len(part))

\* re.search(pattern, text)
ReSearch(pattern, text) == \E alt \in pattern : PartsFrom(alt, 1, text, 0)

\* text.count(c)
Count(text, c) == Cardinality({n \in 1..Len(text) : text[n] = c})

\* body[:500]
Prefix(text, n) == SubSeq(text, 1, Min(Len(text), n))

RECURSIVE ScorePatterns(_, _, _, _, _, _)
\* for pattern in patterns: if re.search(pattern, text): append; junk_score += weight
ScorePatterns(acc, kind, patterns, text, weight, n) ==
    IF n > Len(patterns) THEN acc
    ELSE ScorePatterns(
             IF ReSearch(patterns[n], text)
             THEN [indicators |-> Append(acc.indicators, <<kind, n>>),
                   junk_score |-> acc.junk_score + weight]
             ELSE acc,
             kind, patterns, text, weight, n + 1)

\* if cond: junk_indicators.append(...); junk_score += 1
ScoreIf(acc, cond, kind) ==
    IF cond
    THEN [indicators |-> Append(acc.indicators, <<kind, 0>>),
          junk_score |-> acc.junk_score + 1]
    ELSE acc

\* the likelihood band of a score
Likelihood(junk_score) ==
    IF junk_score >= 4 THEN "high"
    ELSE IF junk_score >= 2 THEN "medium"
    ELSE IF junk_score >= 1 THEN "low"
    ELSE "unlikely"

\* is_junk_email(email_data)
IsJunkEmail(email) ==
    LET subject == ToLower(email.subject)
        from_addr == ToLower(email.from)
        body == ToLower(email.body)
        s1 == ScorePatterns([indicators |-> <<>>, junk_score |-> 0], "subject",
                            spam_subject_patterns, subject, 2, 1)
        s2 == ScorePatterns(s1, "sender", suspicious_sender_patterns, from_addr, 1, 1)
        s3 == ScorePatterns(s2, "body", spam_body_patterns, body, 2, 1)
        \* caps_ratio = sum(1 for c in subject if c.isupper()) / len(subject)
        uppers == Cardinality({n \in 1..Len(subject) : IsUpper(subject[n])})
        s4 == ScoreIf(s3, Len(subject) > 10 /\ 2 * uppers > Len(subject), "caps")
        exclamation_count == Count(subject, "!") + Count(Prefix(body, 500), "!")
        s5 == ScoreIf(s4, exclamation_count > 3, "exclamation")
    IN [kind |-> "junk",
        is_likely_junk |-> s5.junk_score >= 2,
        junk_score |-> s5.junk_score,
        likelihood |-> Likelihood(s5.junk_score),
        indicators |-> s5.indicators]

\* the pieces subjects are made of
Words ==
    {Str("URGENT ACTION REQUIRED"), Str("!!!!"), Str("Free"), Str(" money"),
     Str("HELLO WORLD!"), Str("Re: ")}

RECURSIVE Phrases(_)
Phrases(n) ==
    IF n = 0 THEN {<<>>}
    ELSE Phrases(n - 1) \cup {p \o w : p \in Phrases(n - 1), w \in Words}

Senders ==
    {<<>>, Str("admin@shop.tk"), Str("Noreply@x.tk"), Str("bob@mail.ml\n")}

Bodies ==
    {<<>>, Str("!!!"), Str("Click here NOW!!!!"), Str("click\nhere now")}

JunkEmails == [from : Senders, to : {<<>>}, subject : Phrases(MaxWords), body : Bodies]

InitJunk ==
    /\ BulkIdle
    /\ AsideIdle
    /\ RulesIdle
    /\ ApplyIdle
    /\ email_data \in JunkEmails
    /\ rule = [conditions |-> <<>>]
    /\ matched = "none"

\* junk_analysis = email_client.is_junk_email(email_data)
AnalyzeJunk ==
    /\ exit = "running"
    /\ result' = IsJunkEmail(email_data)
    /\ exit' = "returned"
    /\ UNCHANGED <<applying, email_data, rule, matched, store, rcall, inputs, callee,
                   counters, harness, aside, pc, i, k, emails, mailbox_selected, pending,
                   mark_result, open, log>>

NextJunk == AnalyzeJunk

SpecJunk == InitJunk /\ [][NextJunk]_vars

\* ------------------------------------------------- applying the filter rules
\* The apply calls use search_emails, get_bulk_emails and the bulk mutators
\* through their results only; each such call is one step whose result is
\* any value the callee can return, or an exception.

\* dicts kept in insertion order: sequences of <<key, value>>
Has(d, key) == \E n \in 1..Len(d) : d[n][1] = key
Get(d, key) == d[CHOOSE n \in 1..Len(d) : d[n][1] = key][2]
Set(d, key, v) ==
    IF Has(d, key)
    THEN [n \in 1..Len(d) |-> IF d[n][1] = key THEN <<key, v>> ELSE d[n]]
    ELSE Append(d, <<key, v>>)

\* result.get(key, 0)
GetOr(r, key) == IF key \in DOMAIN r THEN r[key] ELSE 0

\* `and value`: a JSON false or an empty string queues nothing
Truthy(value) == value \notin {"false", ""}

\* one entry of `calls`
ACall(name, ids, arg, res) == [call |-> name, ids |-> ids, arg |-> arg, res |-> res]

RECURSIVE QueueActions(_, _, _, _)
\* for action, value in actions.items(): ... .append(email_id)
QueueActions(acts, email_id, actions, n) ==
    IF n > Len(actions) THEN acts
    ELSE LET a == actions[n][1]
             value == actions[n][2]
             queued ==
                 IF ~Truthy(value) THEN acts
                 ELSE CASE a = "move_to_folder" ->
                             [acts EXCEPT !.move_to_folder =
                                 Set(@, value,
                                     (IF Has(@, value) THEN Get(@, value) ELSE <<>>)
                                         \o <<email_id>>)]
                        [] a \in {"mark_as_read", "mark_as_important", "delete"} ->
                             [acts EXCEPT ![a] = Append(@, email_id)]
                        [] OTHER -> acts
         IN QueueActions(queued, email_id, actions, n + 1)

\* a variant that lets every rule take part
IsEnabledAlways(r) == TRUE

\* rule.get('enabled', True)  (every stored rule has the key)
IsEnabled(r) == r.enabled

RECURSIVE MatchRules(_, _, _, _, _)
\* for rule in enabled_rules: if self.email_matches_rule(full_email, rule): ...
\* `tried` and `hits` are the positions of the rules tested and matched
MatchRules(acts, email_id, full_email, rs, n) ==
    IF n > Len(rs) THEN [acts |-> acts, tried |-> {}, hits |-> {}]
    ELSE IF ~IsEnabled(rs[n]) THEN MatchRules(acts, email_id, full_email, rs, n + 1)
    ELSE IF EmailMatchesRule(full_email, rs[n])
    THEN LET rest == MatchRules(QueueActions(acts, email_id, rs[n].actions, 1),
                                email_id, full_email, rs, n + 1)
         IN [acts |-> rest.acts, tried |-> rest.tried \cup {n},
             hits |-> rest.hits \cup {n}]
    ELSE LET rest == MatchRules(acts, email_id, full_email, rs, n + 1)
         IN [acts |-> rest.acts, tried |-> rest.tried \cup {n}, hits |-> rest.hits]

\* rule['emails_processed'] = ... + 1; rule['last_applied'] = now
Applied(rs, hits) ==
    [n \in 1..Len(rs) |->
        IF n \in hits
        THEN [rs[n] EXCEPT !.emails_processed = @ + 1, !.last_applied = "now"]
        ELSE rs[n]]

\* a variant that keeps the counts of the last chunk only
MergeOneLast(all, action_type, res) ==
    Set(all, action_type,
        [key \in {"moved", "marked", "deleted", "failed"} |-> GetOr(res, key)])

\* all_bulk_results[action_type][key] += result[key] for each key in result
MergeOne(all, action_type, res) ==
    LET base == IF Has(all, action_type) THEN Get(all, action_type)
                ELSE [moved |-> 0, marked |-> 0, deleted |-> 0, failed |-> 0]
    IN Set(all, action_type,
           [key \in {"moved", "marked", "deleted", "failed"} |->
               IF key \in DOMAIN res THEN base[key] + res[key] ELSE base[key]])

RECURSIVE Merge(_, _, _)
\* for action_type, result in chunk_result.get('bulk_results', {}).items()
Merge(all, results, n) ==
    IF n > Len(results) THEN all
    ELSE Merge(MergeOne(all, results[n][1], results[n][2]), results, n + 1)

\* a variant that makes one chunk of everything
ChunkEndAll(ids, start, size) == Len(ids)

\* the end of the slice email_ids[i:i + chunk_size]
ChunkEnd(ids, start, size) == Min(start + size, Len(ids))

\* chunk_ids = email_ids[i:i + chunk_size]; apply_filter_rules hydrates all ids
chunk_ids ==
    IF op = "apply_filter_rules" THEN email_ids
    ELSE SubSeq(email_ids, i + 1, ChunkEnd(email_ids, i, chunk_size))

\* (len(email_ids) + chunk_size - 1) // chunk_size
ChunksProcessed(n, size) == (n + size - 1) \div size

\* ------------------------------------------------------- callee results
\* the message behind an id, as get_bulk_emails builds its record
MessageOf(id) ==
    [from |-> <<"a", "@", "a">>, to |-> <<"A">>,
     subject |-> CASE id % 3 = 1 -> <<"a">>
                   [] id % 3 = 2 -> <<"A", "a">>
                   [] OTHER -> <<"@">>,
     body |-> <<>>]

Reverse(str) == [n \in 1..Len(str) |-> str[Len(str) + 1 - n]]

\* search_emails("ALL", mailbox, limit): the ids found, newest first, without
\* those whose fetch did not return OK; or an exception
SearchOutcomes ==
    {[out |-> "raise", ids |-> <<>>]}
    \cup {[out |-> "OK", ids |-> Reverse(ids)] : ids \in IdLists}

\* get_bulk_emails(ids, mailbox): a map over some of the ids, or an exception
HydrateOutcomes(ids) ==
    {[out |-> "raise", emails |-> <<>>]}
    \cup {[out |-> "OK",
           emails |-> SelectSeq([n \in 1..Len(ids) |-> <<ids[n], MessageOf(ids[n])>>],
                                LAMBDA e : e[1] \in S)] : S \in SUBSET Range(ids)}

\* bulk_move_emails over n ids: every id is counted once, as moved or failed
MoveOutcomes(n) ==
    {[out |-> "raise", res |-> NoResult]}
    \cup {[out |-> "OK", res |-> [moved |-> m, failed |-> n - m]] : m \in 0..n}

\* bulk_mark_emails over n ids
MarkOutcomes(n) ==
    {[out |-> "raise", res |-> NoResult]}
    \cup {[out |-> "OK", res |-> [marked |-> m, failed |-> n - m]] : m \in 0..n}

\* bulk_delete_emails(ids, mailbox, permanent=False) returns what
\* bulk_move_emails(ids, 'Trash', mailbox) returns
DeleteOutcomes(n) == MoveOutcomes(n)

\* --------------------------------------------------------------- the steps
session == <<permanent, target_folder, flag, action, batch_size, counters,
             harness, aside, emails, mailbox_selected, pending, mark_result, open, log>>
matching == <<rcall, email_data, rule, matched>>
totals == <<total_processed, total_actions, all_bulk_results>>
chunk == <<full_emails, bulk_actions, bulk_results, actions_taken>>

\* an exception leaves the apply call: nothing in the client catches it
ApplyRaise ==
    /\ exit' = "raised"
    /\ pc' = "done"
    /\ UNCHANGED result

ApplyReturn(v) ==
    /\ result' = v
    /\ exit' = "returned"
    /\ pc' = "done"

\* rules = self.load_filter_rules(); enabled_rules = [...]
ApplyLoad ==
    /\ pc = "load"
    /\ rules' = store
    /\ IF \E n \in 1..Len(store) : IsEnabled(store[n])
       THEN /\ pc' = "search"
            /\ UNCHANGED <<result, exit>>
       ELSE ApplyReturn([message |-> "No enabled rules found",
                         emails_processed |-> 0, actions_taken |-> 0])
    /\ UNCHANGED <<op, frame, email_ids, mailbox, i, k, chunk_size, chunk,
                   rule_results, totals, calls, store, session, matching>>

\* emails = self.search_emails("ALL", mailbox, limit); email_ids = [...]
ApplySearch ==
    /\ pc = "search"
    /\ \E o \in SearchOutcomes :
          /\ calls' = Append(calls, ACall("search_emails", o.ids, o.out, NoResult))
          /\ IF o.out = "raise"
             THEN ApplyRaise /\ UNCHANGED email_ids
             ELSE IF o.ids = <<>>
             THEN /\ ApplyReturn([error |-> "Failed to retrieve emails"])
                  /\ UNCHANGED email_ids
             ELSE /\ email_ids' = o.ids
                  /\ pc' = IF op = "apply_filter_rules" THEN "hydrate" ELSE "chunks"
                  /\ UNCHANGED <<result, exit>>
    /\ i' = 0
    /\ UNCHANGED <<op, frame, mailbox, k, chunk_size, rules, chunk, rule_results,
                   totals, store, session, matching>>

\* for i in range(0, len(email_ids), chunk_size):
\*     chunk_result = self.apply_filter_rules_to_chunk(chunk_ids, enabled_rules, mailbox)
ApplyChunks ==
    /\ pc = "chunks"
    /\ IF i >= Len(email_ids)
       THEN /\ pc' = "save"
            /\ UNCHANGED <<frame, calls>>
       ELSE /\ frame' = "apply_filter_rules_to_chunk"
            /\ calls' = Append(calls, ACall("apply_filter_rules_to_chunk", chunk_ids,
                                            "", NoResult))
            /\ pc' = "hydrate"
    /\ UNCHANGED <<op, email_ids, mailbox, i, k, chunk_size, rules, chunk,
                   rule_results, totals, result, exit, store, session, matching>>

\* full_emails = self.get_bulk_emails(email_ids, mailbox); if not full_emails: ...
ApplyHydrate ==
    /\ pc = "hydrate"
    /\ \E o \in HydrateOutcomes(chunk_ids) :
          /\ calls' = Append(calls, ACall("get_bulk_emails", chunk_ids, o.out,
                                          NoResult))
          /\ full_emails' = o.emails
          /\ IF o.out = "raise"
             THEN ApplyRaise
             ELSE IF o.emails = <<>>
             THEN IF frame = "apply_filter_rules"
                  THEN ApplyReturn([error |-> "Failed to retrieve email content"])
                  ELSE pc' = "return" /\ UNCHANGED <<result, exit>>
             ELSE pc' = "match" /\ UNCHANGED <<result, exit>>
    /\ bulk_actions' = NoActions
    /\ bulk_results' = <<>>
    /\ actions_taken' = 0
    /\ k' = 1
    /\ UNCHANGED <<op, frame, email_ids, mailbox, i, chunk_size, rules,
                   rule_results, totals, store, session, matching>>

\* a variant that leaves the loop after its first turn
LoopDoneAtOnce(pos, hydrated) == TRUE

\* the turn at position pos is the last one of the loop over hydrated
LoopDone(pos, hydrated) == pos = Len(hydrated)

\* one turn of `for email_id, full_email in full_emails.items()`; only
\* apply_filter_rules updates the statistics of the rules that matched
ApplyMatch ==
    /\ pc = "match"
    /\ LET email_id == full_emails[k][1]
           m == MatchRules(bulk_actions, email_id, full_emails[k][2], rules, 1)
       IN /\ bulk_actions' = m.acts
          /\ calls' = Append(calls, ACall("email_matches_rule", <<email_id>>, "",
                                          [tried |-> m.tried, hits |-> m.hits]))
          /\ IF frame = "apply_filter_rules"
             THEN /\ rules' = Applied(rules, m.hits)
                  /\ rule_results' =
                         rule_results \o
                         SelectSeq([n \in 1..Len(rules) |->
                                       [rule_id |-> rules[n].id, email_id |-> email_id,
                                        pos |-> n]],
                                   LAMBDA r : r.pos \in m.hits)
             ELSE UNCHANGED <<rules, rule_results>>
    /\ IF LoopDone(k, full_emails)
       THEN pc' = "move" /\ k' = 1
       ELSE pc' = "match" /\ k' = k + 1
    /\ UNCHANGED <<op, frame, email_ids, mailbox, i, chunk_size, full_emails,
                   bulk_results, actions_taken, totals, result, exit, store,
                   session, matching>>

\* for target_folder, move_ids in bulk_actions['move_to_folder'].items():
\*     result = self.bulk_move_emails(move_ids, target_folder, mailbox)
ApplyMove ==
    /\ pc = "move"
    /\ IF k > Len(bulk_actions.move_to_folder)
       THEN /\ pc' = "read"
            /\ UNCHANGED <<k, bulk_results, actions_taken, calls, result, exit>>
       ELSE LET folder == bulk_actions.move_to_folder[k][1]
                move_ids == bulk_actions.move_to_folder[k][2]
            IN \E o \in MoveOutcomes(Len(move_ids)) :
                  /\ calls' = Append(calls, ACall("bulk_move_emails", move_ids,
                                                  folder, o))
                  /\ IF o.out = "raise"
                     THEN /\ ApplyRaise
                          /\ UNCHANGED <<k, bulk_results, actions_taken>>
                     ELSE /\ bulk_results' = Set(bulk_results, "move_to_" \o folder,
                                                 o.res)
                          /\ actions_taken' = actions_taken + GetOr(o.res, "moved")
                          /\ k' = k + 1
                          /\ pc' = "move"
                          /\ UNCHANGED <<result, exit>>
    /\ UNCHANGED <<op, frame, email_ids, mailbox, i, chunk_size, rules,
                   full_emails, bulk_actions, rule_results, totals, store, session,
                   matching>>

\* one of the two guarded bulk_mark_emails calls: the body of
\* `if bulk_actions[group]: result = self.bulk_mark_emails(..., flag, 'add', mailbox)`
MarkGroup(group, mark_flag, after) ==
    /\ IF bulk_actions[group] = <<>>
       THEN /\ pc' = after
            /\ UNCHANGED <<bulk_results, actions_taken, calls, result, exit>>
       ELSE \E o \in MarkOutcomes(Len(bulk_actions[group])) :
               /\ calls' = Append(calls, ACall("bulk_mark_emails", bulk_actions[group],
                                               mark_flag, o))
               /\ IF o.out = "raise"
                  THEN /\ ApplyRaise
                       /\ UNCHANGED <<bulk_results, actions_taken>>
                  ELSE /\ bulk_results' = Set(bulk_results, group, o.res)
                       /\ actions_taken' = actions_taken + GetOr(o.res, "marked")
                       /\ pc' = after
                       /\ UNCHANGED <<result, exit>>
    /\ UNCHANGED <<op, frame, email_ids, mailbox, i, k, chunk_size, rules,
                   full_emails, bulk_actions, rule_results, totals, store, session,
                   matching>>

ApplyMarkRead == pc = "read" /\ MarkGroup("mark_as_read", "\\Seen", "important")

ApplyMarkImportant ==
    pc = "important" /\ MarkGroup("mark_as_important", "\\Flagged", "delete")

\* if bulk_actions['delete']: result = self.bulk_delete_emails(ids, mailbox);
\*     actions_taken += result.get('deleted', 0)
ApplyDelete ==
    /\ pc = "delete"
    /\ LET after == IF frame = "apply_filter_rules" THEN "save" ELSE "return"
       IN IF bulk_actions.delete = <<>>
          THEN /\ pc' = after
               /\ UNCHANGED <<bulk_results, actions_taken, calls, result, exit>>
          ELSE \E o \in DeleteOutcomes(Len(bulk_actions.delete)) :
                  /\ calls' = Append(calls, ACall("bulk_delete_emails",
                                                  bulk_actions.delete, "", o))
                  /\ IF o.out = "raise"
                     THEN /\ ApplyRaise
                          /\ UNCHANGED <<bulk_results, actions_taken>>
                     ELSE /\ bulk_results' = Set(bulk_results, "delete", o.res)
                          /\ actions_taken' = actions_taken + GetOr(o.res, "deleted")
                          /\ pc' = after
                          /\ UNCHANGED <<result, exit>>
    /\ UNCHANGED <<op, frame, email_ids, mailbox, i, k, chunk_size, rules,
                   full_emails, bulk_actions, rule_results, totals, store, session,
                   matching>>

\* apply_filter_rules_to_chunk returns; the caller adds the chunk to its totals
ApplyChunkReturn ==
    /\ pc = "return"
    /\ LET chunk_result == [emails_processed |-> Len(full_emails),
                            actions_taken |-> actions_taken,
                            bulk_results |-> bulk_results]
       IN /\ calls' = Append(calls, ACall("return", chunk_ids, "", chunk_result))
          /\ total_processed' = total_processed + chunk_result.emails_processed
          /\ total_actions' = total_actions + chunk_result.actions_taken
          /\ all_bulk_results' = Merge(all_bulk_results, chunk_result.bulk_results, 1)
    /\ frame' = op
    /\ i' = i + chunk_size
    /\ pc' = "chunks"
    /\ UNCHANGED <<op, email_ids, mailbox, k, chunk_size, rules, chunk,
                   rule_results, result, exit, store, session, matching>>

\* self.save_filter_rules(rules); return {...}
ApplySave ==
    /\ pc = "save"
    /\ \E out \in SaveOutcomes :
          /\ store' = Saved(store, rules, out)
          /\ calls' = Append(calls, ACall("save_filter_rules", <<>>, out, NoResult))
    /\ ApplyReturn(IF op = "apply_filter_rules"
                   THEN [emails_processed |-> Len(full_emails),
                         rules_applied |-> Len(rule_results),
                         actions_taken |-> actions_taken,
                         bulk_results |-> bulk_results]
                   ELSE [emails_processed |-> total_processed,
                         actions_taken |-> total_actions,
                         bulk_results |-> all_bulk_results,
                         chunks_processed |->
                             ChunksProcessed(Len(email_ids), chunk_size)])
    /\ UNCHANGED <<op, frame, email_ids, mailbox, i, k, chunk_size, rules, chunk,
                   rule_results, totals, session, matching>>

\* the rule files the apply calls start from, as create_filter_rule and
\* update_filter_rule leave them
StoredRule(id, name, conditions, actions, enabled) ==
    [id |-> id, name |-> name, conditions |-> conditions, actions |-> actions,
     enabled |-> enabled, last_applied |-> "None", emails_processed |-> 0]

ArchiveRule(id, enabled) ==
    StoredRule(id, "news", << <<"subject_contains", <<"a">> >> >>,
               << <<"mark_as_read", "true">>, <<"move_to_folder", "Archive">> >>,
               enabled)

PurgeRule(id, enabled) ==
    StoredRule(id, "bills", << <<"subject_equals", <<"A">> >> >>,
               << <<"mark_as_read", "true">>, <<"delete", "true">> >>, enabled)

FlagRule(id, enabled) ==
    StoredRule(id, "all", <<>>,
               << <<"mark_as_important", "true">>, <<"move_to_folder", "Later">>,
                  <<"delete", "false">> >>, enabled)

ApplyStores ==
    { <<>>,
      <<PurgeRule(1, FALSE)>>,
      <<ArchiveRule(1, TRUE), PurgeRule(2, TRUE)>>,
      <<ArchiveRule(1, TRUE), FlagRule(2, TRUE)>>,
      <<FlagRule(1, FALSE), PurgeRule(2, TRUE)>> }

InitApply ==
    /\ \/ op = "apply_filter_rules" /\ chunk_size = 0
       \/ op = "apply_filter_rules_optimized" /\ chunk_size \in BatchSizes
    /\ frame = op
    /\ store \in ApplyStores
    /\ mailbox = "INBOX"
    /\ email_ids = <<>>
    /\ pc = "load"
    /\ i = 0 /\ k = 0
    /\ result = NoResult
    /\ exit = "running"
    /\ rules = <<>>
    /\ full_emails = <<>>
    /\ bulk_actions = NoActions
    /\ bulk_results = <<>>
    /\ actions_taken = 0
    /\ rule_results = <<>>
    /\ total_processed = 0
    /\ total_actions = 0
    /\ all_bulk_results = <<>>
    /\ calls = <<>>
    /\ rcall = NoCall
    /\ MatchIdle
    /\ SessionIdle
    /\ AsideIdle

NextApply ==
    \/ ApplyLoad
    \/ ApplySearch
    \/ ApplyChunks
    \/ ApplyHydrate
    \/ ApplyMatch
    \/ ApplyMove
    \/ ApplyMarkRead
    \/ ApplyMarkImportant
    \/ ApplyDelete
    \/ ApplyChunkReturn
    \/ ApplySave

SpecApply == InitApply /\ [][NextApply]_vars

\* --------------------------------------------------- find_unsubscribe_links
\* The List-Unsubscribe header is modelled by the list of its <...> items
\* (the text between the brackets), the HTML body by the list of the href
\* values of its <a> elements, the text body by the list of its
\* whitespace-separated tokens, a line break being the token "\n".  Each
\* item, href and token is a string, character by character.
MaxItems == 2        \* a header, an HTML body or a text body holds at most MaxItems items

\* s.startswith(p)
StartsWith(s, p) == Len(p) <= Len(s) /\ SubSeq(s, 1, Len(p)) = p

\* the text after a prefix
After(s, p) == SubSeq(s, Len(p) + 1, Len(s))

\* https?://[^>]+  at the start of an item: a scheme and at least one character
IsUrl(s) ==
    \/ StartsWith(s, Str("http://")) /\ Len(s) > 7
    \/ StartsWith(s, Str("https://")) /\ Len(s) > 8

\* re.findall(r'<mailto:([^>]+)>', list_unsubscribe)
MailtoMatches(header) ==
    LET IsMailto(s) == StartsWith(s, Str("mailto:")) /\ Len(s) > 7
        found == SelectSeq(header, IsMailto)
    IN [n \in 1..Len(found) |-> After(found[n], Str("mailto:"))]

\* re.findall(r'<(https?://[^>]+)>', list_unsubscribe)
HttpMatches(header) == SelectSeq(header, IsUrl)

MailtoMethod(mailto) == [type |-> "mailto", address |-> mailto, method |-> "email"]
HttpMethod(url) == [type |-> "http", url |-> url, method |-> "click"]
BodyMethod(url, source) ==
    [type |-> "http", url |-> url, method |-> "click", source |-> source]

\* method['one_click'] = True; method['method'] = 'one_click'
Upgraded(method) ==
    [type |-> "http", url |-> method.url, method |-> "one_click", one_click |-> TRUE]

\* for method in unsubscribe_methods: if method['type'] == 'http': ...
UpgradeOneClick(methods) ==
    [n \in 1..Len(methods) |->
        IF methods[n].type = "http" THEN Upgraded(methods[n]) ELSE methods[n]]

\* (?i)unsubscribe, (?i)opt.?out, (?i)remove somewhere in s
HasKeyword(kw, s) ==
    LET low == ToLower(s)
    IN CASE kw = 1 -> Contains(Str("unsubscribe"), low)
         [] kw = 2 -> \/ Contains(Str("optout"), low)
                      \/ \E p \in 1..(Len(low) - 6) :
                            /\ SubSeq(low, p, p + 2) = Str("opt")
                            /\ low[p + 3] # "\n"
                            /\ SubSeq(low, p + 4, p + 6) = Str("out")
         [] OTHER -> Contains(Str("remove"), low)

RECURSIVE HtmlMatches(_, _)
\* for pattern in html_unsubscribe_patterns: for match in re.findall(...):
\*     if match.startswith('http'): append
HtmlMatches(hrefs, kw) ==
    IF kw > 3 THEN <<>>
    ELSE LET Wanted(s) == HasKeyword(kw, s) /\ StartsWith(s, Str("http"))
         IN SelectSeq(hrefs, Wanted) \o HtmlMatches(hrefs, kw + 1)

\* (?i)https?://[^\s<>"]+ : a token that is a URL, in any letter case
IsUrlAnyCase(s) == IsUrl(ToLower(s))

\* re.search(r'https?://[^\s<>"]+', match): the URL part, when there is one
HasUrlPart(s) == IsUrl(s)

RECURSIVE UnsubscribeThenUrl(_, _, _)
\* re.findall(r'(?i)unsubscribe.*?https?://[^\s<>"]+', text_body): the word,
\* then the first URL after it on the same line; the search resumes after
\* each match.  `armed`: the word has been met on this line since the last match
UnsubscribeThenUrl(tokens, p, armed) ==
    IF p > Len(tokens) THEN <<>>
    ELSE IF armed /\ IsUrlAnyCase(tokens[p])
    THEN <<tokens[p]>> \o UnsubscribeThenUrl(tokens, p + 1, FALSE)
    ELSE IF tokens[p] = <<"\n">>
    THEN UnsubscribeThenUrl(tokens, p + 1, FALSE)
    ELSE UnsubscribeThenUrl(tokens, p + 1, armed \/ HasKeyword(1, tokens[p]))

RECURSIVE TextMatches(_, _)
\* for pattern in unsubscribe_patterns: for match in re.findall(pattern, text_body)
TextMatches(tokens, pattern) ==
    IF pattern > 4 THEN <<>>
    ELSE LET Wanted(s) == IsUrlAnyCase(s) /\ HasKeyword(pattern - 1, After(s, Str("http")))
             found == IF pattern = 1 THEN UnsubscribeThenUrl(tokens, 1, FALSE)
                      ELSE SelectSeq(tokens, Wanted)
         IN SelectSeq(found, HasUrlPart) \o TextMatches(tokens, pattern + 1)

\* identifier = method.get('url') or method.get('address')
Identifier(method) == IF "url" \in DOMAIN method THEN method.url ELSE method.address

\* a variant that keeps every entry
UniqueAll(methods, n) == methods

RECURSIVE Unique(_, _)
\* for method in unsubscribe_methods: if identifier not in seen_urls: ...
\* (the entries up to the n-th, without repeats)
Unique(methods, n) ==
    IF n = 0 THEN <<>>
    ELSE IF \E m \in 1..(n - 1) : Identifier(methods[m]) = Identifier(methods[n])
         THEN Unique(methods, n - 1)
         ELSE Append(Unique(methods, n - 1), methods[n])

\* the list before the duplicates are removed
AllMethods(email) ==
    LET header == email.list_unsubscribe
        parsed == IF header # <<>>
                  THEN [n \in 1..Len(MailtoMatches(header)) |->
                            MailtoMethod(MailtoMatches(header)[n])]
                       \o [n \in 1..Len(HttpMatches(header)) |->
                            HttpMethod(HttpMatches(header)[n])]
                  ELSE <<>>
        post == email.list_unsubscribe_post
        marked == IF post # <<>> /\ Contains(Str("List-Unsubscribe=One-Click"), post)
                  THEN UpgradeOneClick(parsed)
                  ELSE parsed
        html == IF email.html_body # <<>> THEN HtmlMatches(email.html_body, 1) ELSE <<>>
        text == TextMatches(email.text_body, 1)
    IN marked \o [n \in 1..Len(html) |-> BodyMethod(html[n], "html_body")]
              \o [n \in 1..Len(text) |-> BodyMethod(text[n], "text_body")]

\* the return value, given the list without duplicates
UnsubscribeInfo(unique_methods) ==
    [unsubscribe_methods |-> unique_methods,
     total_methods |-> Len(unique_methods),
     has_one_click |-> \E n \in 1..Len(unique_methods) :
                           /\ "one_click" \in DOMAIN unique_methods[n]
                           /\ unique_methods[n].one_click]

\* find_unsubscribe_links(email_data)
FindUnsubscribeLinks(email) ==
    CHOOSE info \in {UnsubscribeInfo(unique_methods) :
                        unique_methods \in {Unique(all, Len(all)) :
                                               all \in {AllMethods(email)}}} : TRUE

\* ---------------------------------------------------- unsubscribe_from_email
\* a variant that never asks for the confirmation
NotConfirmedNever(c) == FALSE

\* if not confirm
NotConfirmed(c) == ~c

HeaderItems ==
    {Str("mailto:u@x"), Str("https://x/unsubscribe"), Str("https://x/opt-out")}

RECURSIVE ItemLists(_, _)
\* the lists of at most n items
ItemLists(items, n) ==
    IF n = 0 THEN {<<>>}
    ELSE ItemLists(items, n - 1)
         \cup {Append(l, x) : l \in ItemLists(items, n - 1), x \in items}

HtmlBodies ==
    { <<>>,
      <<Str("https://x/unsubscribe")>>,
      <<Str("https://x/opt-out"), Str("https://x/unsubscribe")>>,
      <<Str("/remove")>>,
      <<Str("https://x/remove/unsubscribe")>> }

TextBodies ==
    { <<>>,
      <<Str("Unsubscribe"), Str("https://x/unsubscribe")>>,
      <<Str("unsubscribe"), Str("\n"), Str("https://x/home")>>,
      <<Str("unsubscribe"), Str("https://x/home")>>,
      <<Str("HTTPS://X/REMOVE")>> }

\* what get_full_email_with_html can return for a message
UnsubEmails ==
    [list_unsubscribe : ItemLists(HeaderItems, MaxItems),
     list_unsubscribe_post : {<<>>, Str("List-Unsubscribe=One-Click")},
     html_body : HtmlBodies,
     text_body : TextBodies]

InitUnsub ==
    /\ op = "unsubscribe_from_email" /\ frame = "unsubscribe_from_email"
    /\ email_ids = <<1>>
    /\ mailbox = "INBOX"
    /\ pc = "entry"
    /\ i = 0 /\ k = 0
    /\ result = NoResult
    /\ exit = "running"
    /\ SessionIdle
    /\ RulesIdle
    /\ MatchIdle
    /\ ApplyIdle
    /\ confirm \in BOOLEAN
    /\ method_index \in 0..MaxItems
    /\ unsubscribe_info = NoInfo
    /\ limit = 0
    /\ writers = <<>>

\* the variables an unsubscribe call leaves alone
quiet == <<chunk_size, rules, full_emails, bulk_actions, bulk_results, actions_taken,
           rule_results, total_processed, total_actions, all_bulk_results, rule, matched, store, rcall, inputs, callee, counters,
           harness, i, k, emails, mailbox_selected, pending, mark_result, open, log,
           confirm, method_index, limit, writers>>

\* if not confirm: return {"error": "Safety measure: ...", ...}
UnsubscribeEntry ==
    /\ pc = "entry" /\ op = "unsubscribe_from_email"
    /\ IF NotConfirmed(confirm)
       THEN /\ result' = ToolError("Safety measure: set confirm=True to execute unsubscribe")
            /\ exit' = "returned"
            /\ pc' = "done"
       ELSE /\ pc' = "fetch"
            /\ UNCHANGED <<result, exit>>
    /\ UNCHANGED <<quiet, calls, email_data, unsubscribe_info>>

\* email_data = email_client.get_full_email_with_html(email_id, mailbox)
\* (a mail session is opened and closed inside the call); it raises, returns
\* None, or returns the message
UnsubscribeFetch ==
    /\ pc = "fetch"
    /\ \/ /\ calls' = Append(calls, ACall("get_full_email_with_html", email_ids,
                                          mailbox, "raise"))
          /\ result' = ToolError("Failed to unsubscribe")
          /\ exit' = "returned"
          /\ pc' = "done"
          /\ UNCHANGED email_data
       \/ /\ calls' = Append(calls, ACall("get_full_email_with_html", email_ids,
                                          mailbox, "None"))
          /\ result' = ToolError("Email not found")
          /\ exit' = "returned"
          /\ pc' = "done"
          /\ UNCHANGED email_data
       \/ /\ calls' = Append(calls, ACall("get_full_email_with_html", email_ids,
                                          mailbox, "email"))
          /\ email_data' \in UnsubEmails
          /\ pc' = "find"
          /\ UNCHANGED <<result, exit>>
    /\ UNCHANGED <<quiet, unsubscribe_info>>

\* unsubscribe_info = email_client.find_unsubscribe_links(email_data), and the
\* two tests on the list before a method is picked
UnsubscribeFind ==
    /\ pc = "find"
    /\ \E info \in {FindUnsubscribeLinks(email_data)} :
          /\ unsubscribe_info' = info
          /\ IF info.unsubscribe_methods = <<>>
             THEN /\ result' = ToolError("No unsubscribe methods found in this email")
                  /\ exit' = "returned"
                  /\ pc' = "done"
             ELSE IF method_index >= Len(info.unsubscribe_methods)
             THEN /\ result' = ToolError("Method index out of range")
                  /\ exit' = "returned"
                  /\ pc' = "done"
             ELSE /\ pc' = "execute"
                  /\ UNCHANGED <<result, exit>>
    /\ UNCHANGED <<quiet, calls, email_data>>

\* the answers of the web server: a status code, with or without a
\* confirmation phrase in the page, or an exception of the request
HttpOutcomes == {"200", "200 confirmed", "404", "raise"}

\* execute_unsubscribe: the dict it returns after the request
ExecuteResult(method, out) ==
    [method |-> method,
     success |-> out \in {"200", "200 confirmed"},
     status_code |-> IF out = "raise" THEN "None" ELSE SubSeq(out, 1, 3),
     message |-> out]

\* result = email_client.execute_unsubscribe(method): no request for a mailto
\* method, requests.post for a one-click method, requests.get otherwise
UnsubscribeExecute ==
    /\ pc = "execute"
    /\ LET method == unsubscribe_info.unsubscribe_methods[method_index + 1]
       IN IF method.type = "mailto"
          THEN /\ result' = [kind |-> "unsubscribe",
                             unsubscribe_result |->
                                 [method |-> method, success |-> FALSE,
                                  status_code |-> "None", message |-> "manual"]]
               /\ UNCHANGED calls
          ELSE \E out \in HttpOutcomes :
                 /\ calls' = Append(calls,
                        ACall(IF "one_click" \in DOMAIN method /\ method.one_click
                              THEN "requests.post" ELSE "requests.get",
                              <<>>, method.url, out))
                 /\ result' = [kind |-> "unsubscribe",
                               unsubscribe_result |-> ExecuteResult(method, out)]
    /\ exit' = "returned"
    /\ pc' = "done"
    /\ UNCHANGED <<quiet, email_data, unsubscribe_info>>

NextUnsub ==
    \/ UnsubscribeEntry
    \/ UnsubscribeFetch
    \/ UnsubscribeFind
    \/ UnsubscribeExecute

SpecUnsub == InitUnsub /\ [][NextUnsub]_vars

\* ------------------------------------------ two callers on the rule store
\* Each rule operation is load_filter_rules, a change of the loaded list and
\* save_filter_rules.  Nothing locks the file between the load and the save,
\* so the steps of two operations (two tool calls served at once, or two
\* server processes on one rules file) may interleave.  Each caller runs one
\* operation; `calls` records the loads and the saves in order.
Writers == {1, 2}

IdleWriter == [op |-> "none", pc |-> "idle", loaded |-> <<>>, todo |-> <<>>]

\* the rule files the callers start from
RaceStores == {<<>>, <<ArchiveRule(1, TRUE)>>}

InitRace ==
    /\ BulkIdle
    /\ MatchIdle
    /\ store \in RaceStores
    /\ rcall = NoCall
    /\ chunk_size = 0
    /\ rules = <<>>
    /\ full_emails = <<>>
    /\ bulk_actions = NoActions
    /\ bulk_results = <<>>
    /\ actions_taken = 0
    /\ rule_results = <<>>
    /\ total_processed = 0
    /\ total_actions = 0
    /\ all_bulk_results = <<>>
    /\ calls = <<>>
    /\ confirm = FALSE
    /\ method_index = 0
    /\ unsubscribe_info = NoInfo
    /\ limit = 0
    /\ writers = [w \in Writers |-> IdleWriter]

\* the variables the rule operations leave alone
still == <<rcall, email_data, rule, matched, chunk_size, rules, chunk, rule_results,
           totals, unsub, limit, inputs, callee, counters, harness, pc, i, k, emails,
           mailbox_selected, pending, mark_result, result, exit, open, log>>

\* rules = self.load_filter_rules() of caller w, and the change it makes to
\* its copy: r.save says whether the operation goes on to save_filter_rules
Loaded(w, name, r) ==
    /\ writers' = [writers EXCEPT ![w] =
                      [op |-> name, pc |-> IF r.save THEN "loaded" ELSE "done",
                       loaded |-> store, todo |-> r.rules]]
    /\ calls' = Append(calls, ACall("load_filter_rules", <<w>>, name, store))

\* the start of one operation by caller w, up to the list it is about to save
RaceLoad ==
    /\ \E w \in Writers :
          /\ writers[w].pc = "idle"
          /\ \/ \E rule_name \in RuleNames, conditions \in ConditionInputs :
                   Loaded(w, "create",
                          CreateFilterRule(store, rule_name, conditions,
                                           << <<"mark_as_read", "true">> >>, TRUE))
             \/ \E rule_id \in RuleIds, rule_name \in RuleNames :
                   Loaded(w, "update",
                          UpdateFilterRule(store, rule_id, [name |-> rule_name]))
             \/ \E rule_id \in RuleIds, enabled \in BOOLEAN :
                   Loaded(w, "update",
                          UpdateFilterRule(store, rule_id, [enabled |-> enabled]))
             \/ \E rule_id \in RuleIds :
                   Loaded(w, "delete", DeleteFilterRule(store, rule_id))
             \/ \E hits \in SUBSET {n \in 1..Len(store) : store[n].enabled} :
                   Loaded(w, "apply",
                          [save |-> \E n \in 1..Len(store) : store[n].enabled,
                           rules |-> Applied(store, hits)])
    /\ UNCHANGED <<store, still>>

\* self.save_filter_rules(rules) of caller w: the whole file is rewritten
\* from the caller's copy
RaceSave ==
    /\ \E w \in Writers :
          /\ writers[w].pc = "loaded"
          /\ \E out \in SaveOutcomes :
                /\ store' = Saved(store, writers[w].todo, out)
                /\ calls' = Append(calls, ACall("save_filter_rules", <<w>>, out,
                                                writers[w].todo))
          /\ writers' = [writers EXCEPT ![w].pc = "done"]
    /\ UNCHANGED still

NextRace ==
    \/ RaceLoad
    \/ RaceSave

SpecRace == InitRace /\ [][NextRace]_vars

\* ------------------------------------------------------------ search_emails
\* The ids mail.search returns are the mailbox's ids in ascending order; the
\* list `emails` holds, for each fetched message, the id of its record.

\* message_ids[-limit:]  (limit >= 0; -0 is 0, so [-0:] is the whole list)
LastIds(message_ids, n) ==
    IF n = 0 THEN message_ids
    ELSE SubSeq(message_ids, Len(message_ids) - Min(n, Len(message_ids)) + 1,
                Len(message_ids))

InitSearch ==
    /\ op = "search_emails" /\ frame = "search_emails"
    /\ limit \in 0..MaxIds
    /\ email_ids = <<>>
    /\ mailbox = "INBOX"
    /\ pc = "entry"
    /\ i = 0 /\ k = 0
    /\ result = NoResult
    /\ exit = "running"
    /\ SessionIdle
    /\ RulesIdle
    /\ MatchIdle
    /\ ApplyIdle
    /\ confirm = FALSE
    /\ method_index = 0
    /\ unsubscribe_info = NoInfo
    /\ writers = <<>>

\* status, messages = mail.search(None, query); message_ids = ...[-limit:]
SearchSearch ==
    /\ pc = "loop" /\ frame = "search_emails"
    /\ \/ \E out \in {"NO", "raise"} :
             /\ Allowed(out, <<>>)
             /\ log' = Append(log, Call("search", "search", <<>>, mailbox, "ALL", out, <<>>))
             /\ pending' = IF out = "NO"
                           THEN [kind |-> "return", val |-> FoundResult(<<>>)]
                           ELSE Caught(frame)
             /\ pc' = "finally"
             /\ UNCHANGED email_ids
       \/ \E found \in IdLists :
             /\ Allowed("OK", found)
             /\ log' = Append(log, Call("search", "search", <<>>, mailbox, "ALL", "OK", found))
             /\ email_ids' = LastIds(found, limit)
             /\ pc' = "single"
             /\ UNCHANGED pending
    /\ k' = 0
    /\ emails' = <<>>
    /\ UNCHANGED <<engine, aside, op, permanent, mailbox, callee, counters, harness,
                   i, mailbox_selected, mark_result, result, exit, open>>

\* for msg_id in reversed(message_ids): status, msg_data = mail.fetch(msg_id, '(RFC822)')
\* ... emails.append({...}); past the last id, `return emails`
SearchFetch ==
    /\ pc = "single" /\ frame = "search_emails"
    /\ IF k >= Len(email_ids)
       THEN /\ pending' = [kind |-> "return", val |-> FoundResult(emails)]
            /\ pc' = "finally"
            /\ UNCHANGED <<k, emails, log>>
       ELSE LET msg_id == Reverse(email_ids)[k + 1]
            IN \E got \in SingleReplies(msg_id) :
                  /\ Allowed(got.out, got.data)
                  /\ log' = Append(log, Call("fetch", "single", <<msg_id>>, mailbox, "",
                                             got.out, got.data))
                  /\ CASE got.out = "raise" \/ (got.out = "OK" /\ got.data = <<>>) ->
                            \* msg_data[0][1] of an empty reply raises as well
                            /\ pending' = Caught(frame)
                            /\ pc' = "finally"
                            /\ UNCHANGED <<k, emails>>
                       [] got.out = "NO" ->
                            /\ k' = k + 1
                            /\ UNCHANGED <<emails, pending, pc>>
                       [] OTHER ->
                            /\ emails' = Append(emails, got.data[1])
                            /\ k' = k + 1
                            /\ UNCHANGED <<pending, pc>>
    /\ UNCHANGED <<engine, aside, inputs, callee, counters, harness, i,
                   mailbox_selected, mark_result, result, exit, open>>

\* tool search_emails -> ProtonEmailClient.search_emails
SearchEntry ==
    /\ pc = "entry" /\ frame = "search_emails"
    /\ pc' = "connect"
    /\ UNCHANGED <<engine, aside, inputs, callee, counters, harness, i, k, emails,
                   mailbox_selected, pending, mark_result, result, exit, open, log>>

NextSearch ==
    \/ SearchEntry
    \/ Connect
    \/ Select
    \/ SearchSearch
    \/ SearchFetch
    \/ Close
    \/ Logout

SpecSearch == InitSearch /\ [][NextSearch]_vars

\* ------------------------------------------------ get_bulk_emails_with_html
\* The method opens a session, fetches batch by batch and, when a batch
\* raises, calls get_full_email_with_html for each id of the batch.  That
\* method opens a session of its own.  While it runs, `frame` names it,
\* `pending` holds what its try block decided and its own flag
\* mailbox_selected is told by the position (it is set exactly from "full_fetch"
\* to "full_close"); the caller's flag stays set and is what the variable holds.

\* get_full_email_with_html: `return None`
None == 0

InitHtml ==
    /\ op = "get_bulk_emails_with_html" /\ frame = "get_bulk_emails_with_html"
    /\ email_ids \in IdLists
    /\ mailbox = "INBOX"
    /\ batch_size \in BatchSizes
    /\ target_folder = "" /\ flag = "" /\ action = "" /\ permanent = FALSE
    /\ InitLocals

\* if not email_ids: return {}
HtmlEntry ==
    /\ pc = "entry" /\ frame = "get_bulk_emails_with_html"
    /\ IF email_ids = <<>>
       THEN Return(EmailsResult({}))
       ELSE /\ pc' = "connect"
            /\ UNCHANGED <<result, exit, mark_result, frame>>
    /\ emails' = {}
    /\ UNCHANGED <<engine, inputs, target_folder, flag, action, batch_size, counters,
                   harness, aside, i, k, mailbox_selected, pending, open, log>>

\* one iteration of the batch loop: the multi-id fetch and the parsing of its
\* reply; an exception of either starts the fallback loop
HtmlBatch ==
    /\ pc = "loop" /\ frame = "get_bulk_emails_with_html"
    /\ IF i >= Len(email_ids)
       THEN /\ pending' = [kind |-> "return", val |-> EmailsResult(emails)]
            /\ pc' = "finally"
            /\ UNCHANGED <<i, k, emails, log, frame>>
       ELSE \E got \in FetchReplies(batch_ids) :
               /\ Allowed(got.out, got.data)
               /\ log' = Append(log, Call("fetch", "batch", batch_ids, mailbox,
                                          "(RFC822)", got.out, got.data))
               /\ UNCHANGED pending
               /\ IF got.out = "raise"
                  THEN /\ pc' = "full_connect"
                       /\ frame' = "get_full_email_with_html"
                       /\ k' = 1
                       /\ UNCHANGED <<i, emails>>
                  ELSE IF BatchUsable(got)
                  THEN LET r == ProcessItems(emails, batch_ids, got.data, 0)
                       IN /\ emails' = r.emails
                          /\ IF r.raised
                             THEN /\ pc' = "full_connect"
                                  /\ frame' = "get_full_email_with_html"
                                  /\ k' = 1
                                  /\ UNCHANGED i
                             ELSE /\ pc' = "loop"
                                  /\ i' = i + batch_size
                                  /\ UNCHANGED <<k, frame>>
                  ELSE /\ pc' = "loop"
                       /\ i' = i + batch_size
                       /\ UNCHANGED <<k, emails, frame>>
    /\ UNCHANGED <<engine, inputs, target_folder, flag, action, batch_size, counters,
                   harness, aside, mailbox_selected, mark_result, result, exit, open>>

\* an exception leaves get_full_email_with_html: it was called from the
\* `except` block of the caller, whose `finally` runs next
FullRaised ==
    /\ frame' = "get_bulk_emails_with_html"
    /\ pending' = [kind |-> "raise"]
    /\ pc' = "finally"
    /\ UNCHANGED <<i, k, emails>>

\* get_full_email_with_html returns v:
\* if individual_result: emails[email_id] = individual_result; next id
FullReturned(v) ==
    /\ emails' = IF v # None THEN Put(emails, batch_ids[k], v) ELSE emails
    /\ pending' = NoPending
    /\ IF k < Len(batch_ids)
       THEN /\ k' = k + 1
            /\ pc' = "full_connect"
            /\ UNCHANGED <<i, frame>>
       ELSE /\ NextBatch
            /\ frame' = "get_bulk_emails_with_html"
            /\ UNCHANGED k

\* get_full_email_with_html: mail = self.connect_imap()
FullConnect ==
    /\ pc = "full_connect" /\ frame = "get_full_email_with_html"
    /\ \E out \in {"OK", "raise"} :
          /\ Allowed(out, <<>>)
          /\ log' = Append(log, Call("connect", frame, <<>>, "", "", out, <<>>))
          /\ IF out = "OK"
             THEN /\ open' = open + 1
                  /\ pc' = "full_select"
                  /\ UNCHANGED <<frame, pending, i, k, emails>>
             ELSE /\ FullRaised
                  /\ UNCHANGED open
    /\ UNCHANGED <<engine, inputs, target_folder, flag, action, batch_size, counters,
                   harness, aside, mailbox_selected, mark_result, result, exit>>

\* get_full_email_with_html: status, response = mail.select(mailbox)
FullSelect ==
    /\ pc = "full_select" /\ frame = "get_full_email_with_html"
    /\ \E out \in {"OK", "NO", "raise"} :
          /\ Allowed(out, <<>>)
          /\ log' = Append(log, Call("select", frame, <<>>, mailbox, "", out, <<>>))
          /\ CASE out = "OK" ->
                    /\ pc' = "full_fetch"
                    /\ UNCHANGED pending
               [] out = "NO" ->
                    /\ pending' = [kind |-> "return", val |-> None]
                    /\ pc' = "full_logout"
               [] OTHER ->
                    /\ pending' = [kind |-> "raise"]
                    /\ pc' = "full_logout"
    /\ UNCHANGED <<engine, inputs, callee, counters, harness, aside, i, k, emails,
                   mailbox_selected, mark_result, result, exit, open>>

\* get_full_email_with_html: status, msg_data = mail.fetch(email_id, '(RFC822)')
\* ... raw_email = msg_data[0][1] ... return {...}
FullFetch ==
    /\ pc = "full_fetch" /\ frame = "get_full_email_with_html"
    /\ \E got \in SingleReplies(batch_ids[k]) :
          /\ Allowed(got.out, got.data)
          /\ log' = Append(log, Call("fetch", "single", <<batch_ids[k]>>, mailbox,
                                     "(RFC822)", got.out, got.data))
          /\ pending' = CASE got.out = "raise" -> [kind |-> "raise"]
                          [] got.out = "NO"    -> [kind |-> "return", val |-> None]
                          [] got.data = <<>>   -> [kind |-> "raise"]
                          [] OTHER             -> [kind |-> "return", val |-> got.data[1]]
    /\ pc' = "full_close"
    /\ UNCHANGED <<engine, inputs, callee, counters, harness, aside, i, k, emails,
                   mailbox_selected, mark_result, result, exit, open>>

\* get_full_email_with_html, finally: if mailbox_selected: mail.close()
FullClose ==
    /\ pc = "full_close" /\ frame = "get_full_email_with_html"
    /\ \E out \in {"OK", "raise"} :
          /\ Allowed(out, <<>>)
          /\ log' = Append(log, Call("close", frame, <<>>, mailbox, "", out, <<>>))
          /\ IF out = "OK"
             THEN /\ pc' = "full_logout"
                  /\ UNCHANGED <<frame, pending, i, k, emails>>
             ELSE FullRaised
    /\ UNCHANGED <<engine, inputs, target_folder, flag, action, batch_size, counters,
                   harness, aside, mailbox_selected, mark_result, result, exit, open>>

\* get_full_email_with_html, finally: mail.logout(); then its pending return
\* or exception takes effect in the caller
FullLogout ==
    /\ pc = "full_logout" /\ frame = "get_full_email_with_html"
    /\ \E out \in {"OK", "raise"} :
          /\ Allowed(out, <<>>)
          /\ log' = Append(log, Call("logout", frame, <<>>, "", "", out, <<>>))
          /\ open' = open - 1
          /\ IF out = "OK" /\ pending.kind = "return"
             THEN FullReturned(pending.val)
             ELSE FullRaised
    /\ UNCHANGED <<engine, inputs, target_folder, flag, action, batch_size, counters,
                   harness, aside, mailbox_selected, mark_result, result, exit>>

NextHtml ==
    \/ HtmlEntry
    \/ Connect
    \/ Select
    \/ HtmlBatch
    \/ FullConnect
    \/ FullSelect
    \/ FullFetch
    \/ FullClose
    \/ FullLogout
    \/ Close
    \/ Logout

SpecHtml == InitHtml /\ [][NextHtml]_vars

\* ------------------------------------------- filter_junk_emails, move_to_spam
\* The tool searches, hydrates and classifies (search_emails, get_bulk_emails
\* and is_junk_email, none of which changes the mailbox), queues the ids of the
\* junk emails in the order of the search result, newest first, calls
\* bulk_move_emails(junk_email_ids, "Spam", mailbox) and then writes
\* action_taken into the result entry of every queued email.  The entries of
\* the emails that were not queued carry no action and are left out.
SpamFolder == "Spam"

\* what the analysis may leave the tool with: an error or an empty search
\* result, returned as it is, or the list of the junk ids
AnalysisOutcomes ==
    {[out |-> "stop", ids |-> <<>>]}
    \cup {[out |-> "OK", ids |-> Reverse(ids)] : ids \in IdLists}

\* if email_id in junk_email_ids[:moved_count]: "moved_to_spam" else "move_failed"
ActionTaken(junk_email_ids, moved, email_id) ==
    IF email_id \in Range(SubSeq(junk_email_ids, 1, Min(moved, Len(junk_email_ids))))
    THEN "moved_to_spam"
    ELSE "move_failed"

\* the entries of the queued emails and the summary, `moved` being moved_count:
\* move_result.get('moved', 0), or 0 when nothing was queued
JunkReport(junk_email_ids, moved) ==
    [kind |-> "junk_filter",
     entries |-> [n \in 1..Len(junk_email_ids) |->
                     [id |-> junk_email_ids[n],
                      action_taken |-> ActionTaken(junk_email_ids, moved,
                                                   junk_email_ids[n])]],
     summary |-> [junk_detected |-> Len(junk_email_ids),
                  moved_to_spam |-> moved,
                  move_failed |-> Len(junk_email_ids) - moved]]

InitSpam ==
    /\ op = "filter_junk_emails" /\ frame = "filter_junk_emails"
    /\ email_ids = <<>>
    /\ mailbox = "INBOX"
    /\ permanent = FALSE
    /\ target_folder = "" /\ flag = "" /\ action = "move_to_spam"
    /\ batch_size = 0
    /\ InitLocals

\* the analysis loop, and `if action == "move_to_spam" and junk_email_ids:`
\* the call of bulk_move_emails
SpamQueue ==
    /\ pc = "entry" /\ frame = "filter_junk_emails"
    /\ \E o \in AnalysisOutcomes :
          /\ email_ids' = o.ids
          /\ CASE o.out = "stop" ->
                    /\ result' = ToolError("Failed to retrieve email content for junk analysis")
                    /\ exit' = "returned"
                    /\ pc' = "done"
                    /\ UNCHANGED <<frame, target_folder, batch_size>>
               [] o.ids = <<>> ->
                    /\ result' = JunkReport(<<>>, 0)
                    /\ exit' = "returned"
                    /\ pc' = "done"
                    /\ UNCHANGED <<frame, target_folder, batch_size>>
               [] OTHER ->
                    /\ frame' = "bulk_move_emails"
                    /\ target_folder' = SpamFolder
                    /\ batch_size' = DefaultMoveBatchSize
                    /\ pc' = "entry"
                    /\ UNCHANGED <<result, exit>>
    /\ UNCHANGED <<engine, aside, op, permanent, mailbox, flag, action, counters,
                   harness, i, k, emails, mailbox_selected, pending, mark_result,
                   open, log>>

\* moved_count = move_result.get('moved', 0) and the loop over
\* filtered_results; an exception of the call is caught by the tool
SpamReport ==
    /\ pc = "done" /\ op = "filter_junk_emails" /\ frame = "bulk_move_emails"
    /\ frame' = "filter_junk_emails"
    /\ result' = IF exit = "raised"
                 THEN ToolError("Failed to filter junk emails")
                 ELSE JunkReport(email_ids, GetOr(result, "moved"))
    /\ exit' = "returned"
    /\ UNCHANGED <<engine, aside, inputs, target_folder, flag, action, batch_size,
                   counters, harness, pc, i, k, emails, mailbox_selected, pending,
                   mark_result, open, log>>

NextSpam ==
    \/ SpamQueue
    \/ BulkMoveEntry
    \/ Connect
    \/ Select
    \/ MoveBatchCopy
    \/ MoveBatchStore
    \/ MoveSingleCopy
    \/ MoveSingleStore
    \/ MoveExpunge
    \/ Close
    \/ Logout
    \/ SpamReport

SpecSpam == InitSpam /\ [][NextSpam]_vars

\* ------------------------------------------------------- reading the log
Indexes == 1..Len(log)
CallsOf(name) == {n \in Indexes : log[n].call = name}
Ended == pc = "done"
AfterTry == pc \in {"finally", "logout", "done"}

\* no call on the session failed: every status is OK and every fetch returned
\* the record of each requested id
NoTransportFailure ==
    \A n \in Indexes :
        /\ log[n].out = "OK"
        /\ log[n].call = "fetch" => log[n].data = FullReply(log[n].ids).data

\* the session returned the record of message id in some fetch
Delivered(id) ==
    \E n \in CallsOf("fetch") : log[n].out = "OK" /\ id \in Range(log[n].data)

\* the fallback loop issued a single-id fetch for id
SingleFetched(id) ==
    \E n \in CallsOf("fetch") : log[n].site = "single" /\ log[n].ids = <<id>>

\* the multi-id fetch n failed: exception, non-OK status, empty or malformed data
BatchFetchFailed(n) ==
    log[n].out # "OK" \/ log[n].data # FullReply(log[n].ids).data

\* some copy that returned OK covered id
CopiedOK(id) ==
    \E n \in CallsOf("copy") : log[n].out = "OK" /\ id \in Range(log[n].ids)

SelectRejected == \E n \in CallsOf("select") : log[n].out = "NO"

\* ------------------------------------------------------------------- claims

C2_FallbackAfterFailedBatch ==
    (op = "get_bulk_emails" /\ AfterTry) =>
        \A n \in CallsOf("fetch") :
            (log[n].site = "batch" /\ BatchFetchFailed(n)) =>
                \A m \in 1..Len(log[n].ids) :
                    /\ n + m <= Len(log)
                    /\ log[n + m].call = "fetch"
                    /\ log[n + m].site = "single"
                    /\ log[n + m].ids = <<log[n].ids[m]>>

\* C3: in get_bulk_emails, once the mailbox is selected, fetch failures never
\* abort the call: every batch is fetched and the call is about to return its
\* map; an id whose batch fetch and single-id fetch both delivered nothing is
\* absent from the map, and every id some fetch delivered is present.
C3_SilentOmission ==
    (op = "get_bulk_emails" /\ mailbox_selected /\ AfterTry) =>
        /\ pending.kind = "return"
        /\ \A c \in 0..Len(email_ids) :
               c * batch_size < Len(email_ids) =>
                   \E n \in CallsOf("fetch") :
                       /\ log[n].site = "batch"
                       /\ log[n].ids = BatchIds(email_ids, c * batch_size, batch_size)
        /\ \A id \in Range(email_ids) :
               /\ (~Delivered(id) /\ SingleFetched(id)) =>
                      id \notin Keys(pending.val.emails)
               /\ Delivered(id) => id \in Keys(pending.val.emails)

\* C4: when a client operation has ended, every session it opened has been
\* logged out, and close was issued exactly once per successful select.
C4_SessionReleased ==
    Ended =>
        /\ open = 0
        /\ Cardinality(CallsOf("logout")) =
               Cardinality({n \in CallsOf("connect") : log[n].out = "OK"})
        /\ Cardinality(CallsOf("close")) =
               Cardinality({n \in CallsOf("select") : log[n].out = "OK"})

\* C5: when select returns a non-OK status in get_bulk_emails, bulk_move_emails
\* or bulk_mark_emails, no fetch, copy, store or expunge is issued, no close is
\* issued, the session is logged out, and the operation returns the empty map
\* (retrieval) or the error result with succeeded 0 and failed = len(ids)
\* (mutators); only an exception raised by that logout itself prevents the return.
C5_SelectFailure ==
    (op \in {"get_bulk_emails", "bulk_move_emails", "bulk_mark_emails"}
        /\ SelectRejected) =>
        /\ \A n \in Indexes : log[n].call \in {"connect", "select", "logout"}
        /\ ~mailbox_selected
        /\ Ended =>
              /\ log[Len(log)].call = "logout"
              /\ open = 0
              /\ exit = "returned" <=> log[Len(log)].out = "OK"
              /\ exit = "returned" =>
                    result = CASE op = "get_bulk_emails" -> EmailsResult({})
                               [] op = "bulk_move_emails" ->
                                      [kind |-> "move", moved |-> 0,
                                       failed |-> Len(email_ids), error |-> "select"]
                               [] OTHER ->
                                      [kind |-> "mark", marked |-> 0,
                                       failed |-> Len(email_ids), error |-> "select"]

C5_Witness ==
    /\ op = "bulk_move_emails" /\ exit = "returned"
    /\ SelectRejected
    /\ Len(email_ids) >= 2
    /\ result.failed = Len(email_ids)
    /\ "error" \in DOMAIN result

\* C6: in bulk_move_emails each batch starts with one multi-id copy; if it
\* returns OK, one mark-deleted store over the same ids follows and no per-id
\* call is made for that batch; otherwise one copy per id follows, and a per-id
\* store is issued exactly after each per-id copy that returned OK.
C6_CopyThenStore ==
    (frame = "bulk_move_emails" /\ AfterTry) =>
        /\ \A n \in CallsOf("copy") :
              (log[n].site = "batch" /\ log[n].out = "OK") =>
                  /\ n + 1 <= Len(log)
                  /\ log[n + 1].call = "store" /\ log[n + 1].site = "batch"
                  /\ log[n + 1].ids = log[n].ids
                  /\ log[n + 1].arg = "+FLAGS \\Deleted"
                  /\ n + 2 <= Len(log) => log[n + 2].site # "single"
        /\ \A n \in CallsOf("copy") :
              (log[n].site = "batch" /\ log[n].out # "OK") =>
                  \A m \in 1..Len(log[n].ids) :
                      \E j \in Indexes :
                          /\ j > n
                          /\ log[j].call = "copy" /\ log[j].site = "single"
                          /\ log[j].ids = <<log[n].ids[m]>>
        /\ \A n \in CallsOf("copy") :
              log[n].site = "single" =>
                  (log[n].out = "OK" <=>
                      /\ n + 1 <= Len(log)
                      /\ log[n + 1].call = "store" /\ log[n + 1].site = "single"
                      /\ log[n + 1].ids = log[n].ids)

\* C7: in one bulk_move_emails call expunge is issued at most once, only once
\* the loop is past the last batch and with no copy or store after it, and,
\* once the try block is left, it has been issued if and only if at least one
\* id was counted in moved_count.
C7_SingleFinalExpunge ==
    frame = "bulk_move_emails" =>
        /\ Cardinality(CallsOf("expunge")) <= 1
        /\ \A n \in CallsOf("expunge") :
              /\ i >= Len(email_ids)
              /\ \A m \in Indexes : m > n => log[m].call \notin {"copy", "store"}
        /\ ~AfterTry => CallsOf("expunge") = {}
        /\ AfterTry => (CallsOf("expunge") # {} <=> moved_count > 0)

C7_Witness ==
    /\ frame = "bulk_move_emails" /\ Ended
    /\ Len(email_ids) >= 2 /\ batch_size = 1
    /\ moved_count >= 1 /\ failed_count >= 1
    /\ Cardinality(CallsOf("expunge")) = 1

\* C8: in the result of bulk_move_emails, moved is the number of ids covered by
\* a copy that returned OK, and every other id is counted in failed.
C8_MovedCountsCopies ==
    (op = "bulk_move_emails" /\ exit = "returned") =>
        /\ result.moved = Cardinality({id \in Range(email_ids) : CopiedOK(id)})
        /\ result.failed = Cardinality({id \in Range(email_ids) : ~CopiedOK(id)})

\* C9: bulk_delete_emails(ids, mailbox, permanent=False) and
\* bulk_move_emails(ids, 'Trash', mailbox), run against a session that answers
\* alike, issue the same transport calls in the same order and end alike, with
\* the same returned counts and details.
C9_SoftDeleteIsMoveToTrash ==
    (first # NoResult /\ Ended) =>
        /\ log = first.log
        /\ exit = first.exit
        /\ result = first.result

C9_Witness ==
    /\ first # NoResult /\ Ended
    /\ exit = "returned"
    /\ Len(email_ids) >= 2
    /\ result.moved >= 1 /\ result.failed >= 1
    /\ \E n \in CallsOf("copy") : log[n].arg = "Trash"

\* C10: a returned bulk_delete_emails(permanent=True) has marked the ids with
\* +FLAGS \Deleted, has issued exactly one expunge on the same mailbox after
\* the stores if at least one id was marked and none otherwise, and reports
\* deleted = marked.
C10_PermanentDelete ==
    (op = "bulk_delete_emails" /\ permanent /\ exit = "returned") =>
        /\ result.deleted = mark_result.marked
        /\ \A n \in CallsOf("store") : log[n].arg = "+FLAGS \\Deleted"
        /\ Cardinality(CallsOf("expunge")) = IF mark_result.marked > 0 THEN 1 ELSE 0
        /\ \A n \in CallsOf("expunge") :
              /\ log[n].box = mailbox
              /\ \A m \in CallsOf("store") : m < n

\* the multi-id stores issued so far, and how many precede call n
BatchStores == {n \in CallsOf("store") : log[n].site = "batch"}
BatchStoresBefore(n) == Cardinality({m \in BatchStores : m < n})

\* C11: in bulk_mark_emails the multi-id stores cover the chunks of the id list
\* in order, one store per chunk, with +FLAGS when action is "add" and -FLAGS
\* otherwise; a per-id store is only issued behind a multi-id store that failed,
\* for the ids of that chunk in order; once the loop is over every failed chunk
\* has had one store per id; and no expunge is ever issued.
C11_MarkBatchThenSingles ==
    op = "bulk_mark_emails" =>
        /\ CallsOf("expunge") = {}
        /\ \A n \in CallsOf("store") :
              log[n].arg = (IF action = "add" THEN "+FLAGS " ELSE "-FLAGS ") \o flag
        /\ \A n \in BatchStores :
              log[n].ids = BatchIds(email_ids, BatchStoresBefore(n) * batch_size,
                                    batch_size)
        /\ \A n \in CallsOf("store") :
              log[n].site = "single" =>
                  \E b \in BatchStores :
                      /\ b < n /\ n - b <= Len(log[b].ids)
                      /\ log[b].out # "OK"
                      /\ \A m \in (b + 1)..n : log[m].site = "single"
                      /\ log[n].ids = <<log[b].ids[n - b]>>
        /\ (AfterTry /\ mailbox_selected) =>
              /\ Cardinality(BatchStores) * batch_size >= Len(email_ids)
              /\ \A b \in BatchStores :
                    (log[b].out # "OK") =>
                        \A m \in 1..Len(log[b].ids) :
                            /\ log[b + m].call = "store"
                            /\ log[b + m].site = "single"
                    /\ (log[b].out = "OK") => log[b + 1].site # "single"

C11_Witness ==
    /\ op = "bulk_mark_emails" /\ exit = "returned"
    /\ action = "remove" /\ batch_size = 2 /\ Len(email_ids) = 3
    /\ \E b \in BatchStores : log[b].out = "NO" /\ log[b + 2].site = "single"
    /\ \E b \in BatchStores : log[b].out = "OK"
    /\ result.marked >= 2

\* two rules of the store at different positions
RulePairs == {p \in (1..Len(store)) \X (1..Len(store)) : p[1] < p[2]}

\* C12: a create_filter_rule call whose name is already in the store, or whose
\* conditions or actions hold a key outside the closed enumerations, returns
\* false, leaves the store unchanged and does not write it.
C12_RejectedCreate ==
    [][ (rcall'.op = "create"
          /\ \/ \E n \in 1..Len(store) : store[n].name = rcall'.name
             \/ \E n \in 1..Len(rcall'.conditions) :
                   rcall'.conditions[n][1] \notin ValidConditions
             \/ \E n \in 1..Len(rcall'.actions) :
                   rcall'.actions[n][1] \notin ValidActions)
        => (store' = store /\ ~rcall'.ok /\ ~rcall'.saved) ]_vars

C12_Witness ==
    /\ rcall.op = "create" /\ ~rcall.ok /\ ~rcall.saved
    /\ Len(store) = 1
    /\ store[1].name # rcall.name
    /\ "run_script" \in DictKeys(rcall.actions)

\* C13: after any sequence of create_filter_rule and delete_filter_rule calls
\* the rules in the store have pairwise distinct identifiers.
C13_DistinctIds ==
    \A p \in RulePairs : store[p[1]].id # store[p[2]].id

\* C14: after any sequence of create, update and delete calls the rule names
\* in the store are pairwise distinct.
C14_DistinctNames ==
    \A p \in RulePairs : store[p[1]].name # store[p[2]].name

\* the characters of value occur, case aside, in text from position p + 1 on
OccursAt(value, text, p) ==
    /\ p + Len(value) <= Len(text)
    /\ \A q \in 1..Len(value) : LowerChar(text[p + q]) = LowerChar(value[q])

\* the condition <<kind, value>> holds for the message
ConditionHolds(kind, value, email) ==
    CASE kind = "from" -> \E p \in 0..Len(email.from) : OccursAt(value, email.from, p)
      [] kind = "to" -> \E p \in 0..Len(email.to) : OccursAt(value, email.to, p)
      [] kind = "subject_contains" ->
             \E p \in 0..Len(email.subject) : OccursAt(value, email.subject, p)
      [] kind = "body_contains" ->
             \E p \in 0..Len(email.body) : OccursAt(value, email.body, p)
      [] kind = "subject_equals" ->
             Len(value) = Len(email.subject) /\ OccursAt(value, email.subject, 0)
      [] kind = "sender_domain" ->
             IF \E p \in 1..Len(email.from) : email.from[p] = "@"
             THEN \E p \in 1..Len(email.from) :
                     /\ email.from[p] = "@"
                     /\ \A q \in (p + 1)..Len(email.from) : email.from[q] # "@"
                     /\ Len(value) = Len(email.from) - p
                     /\ OccursAt(value, email.from, p)
             ELSE value = <<>>

\* C15: email_matches_rule returns true if and only if every condition of kind
\* from, to, subject_contains, subject_equals, body_contains and sender_domain
\* of the rule holds for the message; the other kinds never cause a mismatch,
\* and a rule with no conditions matches every message.
C15_MatchIsConjunction ==
    matched # "none" =>
        /\ matched = "True" <=>
              \A n \in 1..Len(rule.conditions) :
                  rule.conditions[n][1] \in
                      {"from", "to", "subject_contains", "subject_equals",
                       "body_contains", "sender_domain"}
                  => ConditionHolds(rule.conditions[n][1], rule.conditions[n][2],
                                    email_data)
        /\ rule.conditions = <<>> => matched = "True"

C15_Witness ==
    /\ matched = "False"
    /\ Len(rule.conditions) = 2
    /\ rule.conditions[1][1] = "sender_domain"
    /\ ConditionHolds("sender_domain", rule.conditions[1][2], email_data)
    /\ rule.conditions[1][2] # <<>>
    /\ rule.conditions[2][1] = "to"

\* ------------------------------------------------ reading the apply calls
AIndexes == 1..Len(calls)
ACallsOf(name) == {n \in AIndexes : calls[n].call = name}
IsBulk(c) == c.call \in {"bulk_move_emails", "bulk_mark_emails", "bulk_delete_emails"}
BulkCalls == {n \in AIndexes : IsBulk(calls[n])}

\* the key of bulk_results a bulk call is filed under
ActionType(c) ==
    CASE c.call = "bulk_move_emails" -> "move_to_" \o c.arg
      [] c.call = "bulk_mark_emails" ->
             (IF c.arg = "\\Seen" THEN "mark_as_read" ELSE "mark_as_important")
      [] OTHER -> "delete"

RECURSIVE SumFrom(_, _)
\* q[n] + ... + q[Len(q)]
SumFrom(q, n) == IF n > Len(q) THEN 0 ELSE q[n] + SumFrom(q, n + 1)

NoDuplicates(q) == \A a, b \in 1..Len(q) : a # b => q[a] # q[b]

\* rule n of the loaded list queues action a
Queues(n, a) ==
    \E j \in 1..Len(rules[n].actions) :
        /\ rules[n].actions[j][1] = a
        /\ rules[n].actions[j][2] \notin {"false", ""}

\* the calls made by the chunk in hand: those after the last to_chunk call
ChunkStart ==
    LET starts == ACallsOf("apply_filter_rules_to_chunk")
    IN CHOOSE n \in starts : \A m \in starts : m <= n
ChunkMatches ==
    LET start == ChunkStart
    IN {n \in AIndexes : n > start /\ calls[n].call = "email_matches_rule"}
ChunkBulkCalls ==
    LET start == ChunkStart
    IN {n \in AIndexes : n > start /\ IsBulk(calls[n])}
ChunkHits == UNION {calls[n].res.hits : n \in ChunkMatches}

\* the target folders of the rules in hits
FoldersOf(hits) ==
    UNION {{rules[n].actions[j][2] :
               j \in {x \in 1..Len(rules[n].actions) :
                         /\ rules[n].actions[x][1] = "move_to_folder"
                         /\ rules[n].actions[x][2] \notin {"false", ""}}} :
           n \in hits}

\* C16: no list of ids handed to a bulk mutator by an apply call holds the
\* same id twice (a message matched by two rules that both mark it as read is
\* listed once).
C16_NoIdTwice ==
    \A n \in BulkCalls : NoDuplicates(calls[n].ids)

\* C17: in apply_filter_rules_to_chunk every bulk call comes after every
\* hydrated message has been tested against every enabled rule; no group gets
\* two bulk calls; when the chunk returns, exactly the non-empty groups have
\* had their call: one per target folder of a matching rule and one each for
\* mark_as_read, mark_as_important and delete if a matching rule queues it;
\* so at most (target folders + 3) bulk calls are made per chunk.
C17_BulkAfterMatching ==
    frame = "apply_filter_rules_to_chunk" =>
        LET matches == ChunkMatches
            bulks == ChunkBulkCalls
            hits == UNION {calls[n].res.hits : n \in matches}
            folders == FoldersOf(hits)
            enabled == {n \in 1..Len(rules) : rules[n].enabled}
        IN /\ bulks # {} =>
                 \A e \in 1..Len(full_emails) :
                     \E m \in matches :
                         /\ \A b \in bulks : m < b
                         /\ calls[m].ids = <<full_emails[e][1]>>
                         /\ calls[m].res.tried = enabled
           /\ \A a, b \in bulks : a # b => ActionType(calls[a]) # ActionType(calls[b])
           /\ Cardinality(bulks) <= Cardinality(folders) + 3
           /\ pc = "return" =>
                 /\ {calls[b].arg : b \in {x \in bulks :
                                             calls[x].call = "bulk_move_emails"}}
                        = folders
                 /\ \A a \in {"mark_as_read", "mark_as_important", "delete"} :
                       (\E b \in bulks : ActionType(calls[b]) = a)
                           <=> (\E n \in hits : Queues(n, a))

C17_Witness ==
    /\ frame = "apply_filter_rules_to_chunk" /\ pc = "return"
    /\ Len(full_emails) >= 2
    /\ Cardinality(FoldersOf(ChunkHits)) = 2
    /\ Cardinality(ChunkBulkCalls) = 4

\* the to_chunk calls and the hydration calls, in order
ChunkCalls == SelectSeq(calls, LAMBDA c : c.call = "apply_filter_rules_to_chunk")
Hydrations == SelectSeq(calls, LAMBDA c : c.call = "get_bulk_emails")

\* the least q with q * c >= n
CeilDiv(n, c) == CHOOSE q \in 0..n : q * c >= n /\ (q = 0 \/ (q - 1) * c < n)

\* the 237 candidate ids of the example
ExampleIds == [n \in 1..237 |-> n]

\* C18: apply_filter_rules_optimized calls apply_filter_rules_to_chunk on the
\* slices [c(j-1), cj) of the candidate ids, in order, each followed by one
\* hydration of that slice; when it returns it has made ceil(N/c) such calls
\* and chunks_processed is that number; 237 ids with chunk size 50 give 5
\* chunks, the last one of 37.
C18_ChunksPartitionIds ==
    op = "apply_filter_rules_optimized" =>
        LET chunks == ChunkCalls
            hydrations == Hydrations
        IN /\ \A j \in 1..Len(chunks) :
                 /\ (j - 1) * chunk_size < Len(email_ids)
                 /\ Len(chunks[j].ids) =
                        (IF j * chunk_size <= Len(email_ids) THEN chunk_size
                         ELSE Len(email_ids) - (j - 1) * chunk_size)
                 /\ \A q \in 1..Len(chunks[j].ids) :
                       chunks[j].ids[q] = email_ids[(j - 1) * chunk_size + q]
           /\ Len(chunks) - 1 <= Len(hydrations) /\ Len(hydrations) <= Len(chunks)
           /\ \A j \in 1..Len(hydrations) : hydrations[j].ids = chunks[j].ids
           /\ (exit = "returned" /\ email_ids # <<>>) =>
                 /\ Len(chunks) = CeilDiv(Len(email_ids), chunk_size)
                 /\ Len(hydrations) = Len(chunks)
                 /\ result.chunks_processed = Len(chunks)
                 /\ ChunksProcessed(Len(ExampleIds), 50) = 5
                 /\ ChunkEnd(ExampleIds, 200, 50) - 200 = 37
                 /\ \A st \in {0, 50, 100, 150} : ChunkEnd(ExampleIds, st, 50) - st = 50

C18_Witness ==
    /\ op = "apply_filter_rules_optimized" /\ exit = "returned"
    /\ Len(email_ids) = 3 /\ chunk_size = 2
    /\ result.chunks_processed = 2
    /\ Len(ChunkCalls[2].ids) = 1

\* the results returned by the chunks
ChunkResults == SelectSeq(calls, LAMBDA c : c.call = "return")

\* the bulk calls that returned
BulkReturns == SelectSeq(calls, LAMBDA c : IsBulk(c) /\ c.res.out = "OK")

\* the sum of the counts `key` returned by those of the bulk calls in
\* `returned` that are filed under action_type
CountOf(returned, action_type, key) ==
    SumFrom([n \in 1..Len(returned) |->
                IF ActionType(returned[n]) = action_type
                   /\ key \in DOMAIN returned[n].res.res
                THEN returned[n].res.res[key] ELSE 0], 1)

\* C19: the result of apply_filter_rules_optimized reports the sums over its
\* chunks: emails_processed and actions_taken are the sums of the values the
\* chunks returned, and under every action kind the moved, marked, deleted and
\* failed counts are the sums of the counts returned by the bulk calls of
\* that kind.
C19_ResultIsSumOfChunks ==
    (op = "apply_filter_rules_optimized" /\ exit = "returned"
        /\ email_ids # <<>>) =>
        LET returns == ChunkResults
            bulks == BulkReturns
        IN /\ result.emails_processed =
                  SumFrom([n \in 1..Len(returns) |-> returns[n].res.emails_processed], 1)
           /\ result.actions_taken =
                  SumFrom([n \in 1..Len(returns) |-> returns[n].res.actions_taken], 1)
           /\ DictKeys(result.bulk_results) =
                  {ActionType(bulks[n]) : n \in 1..Len(bulks)}
           /\ \A n \in 1..Len(result.bulk_results) :
                 \A key \in {"moved", "marked", "deleted", "failed"} :
                     result.bulk_results[n][2][key] =
                         CountOf(bulks, result.bulk_results[n][1], key)

C19_Witness ==
    /\ op = "apply_filter_rules_optimized" /\ exit = "returned"
    /\ Len(ChunkResults) >= 2
    /\ Has(result.bulk_results, "mark_as_read")
    /\ Get(result.bulk_results, "mark_as_read").marked = 2
    /\ Get(result.bulk_results, "mark_as_read").failed = 1
    /\ \A n \in 1..2 : Has(ChunkResults[n].res.bulk_results, "mark_as_read")

\* the number of messages rule n matched in the run
MatchedBy(n) ==
    Cardinality({m \in ACallsOf("email_matches_rule") : n \in calls[m].res.hits})

\* C20: when an apply call has run to its end and its save succeeded, the rule
\* file was written once, after every bulk call, and shows for every enabled
\* rule emails_processed raised by the number of messages the rule matched in
\* the run, and last_applied set if it matched any.
C20_StatisticsPersisted ==
    (exit = "returned" /\ "bulk_results" \in DOMAIN result
        /\ \E n \in ACallsOf("save_filter_rules") : calls[n].arg = "ok") =>
        /\ Cardinality(ACallsOf("save_filter_rules")) = 1
        /\ \A n \in ACallsOf("save_filter_rules") : \A b \in BulkCalls : b < n
        /\ Len(store) = Len(rules)
        /\ \A n \in 1..Len(store) :
              store[n].enabled =>
                  /\ store[n].emails_processed = MatchedBy(n)
                  /\ MatchedBy(n) > 0 => store[n].last_applied = "now"

\* ---------------------------------------------------------------------- C21
\* the tool's return value carries an error indication (an `error` entry)
HasError(v) ==
    IF op = "get_bulk_emails" /\ email_ids # <<>> /\ exit = "returned"
    THEN \E n \in 1..Len(v) : "error" \in DOMAIN v[n]
    ELSE "error" \in DOMAIN v

\* the client call gave the operation up: it raised, or it returned the
\* dict it builds when the select fails or an exception reaches its handler
GaveUp == exit = "raised" \/ (exit = "returned" /\ "error" \in DOMAIN result)

\* C21: no transport exception leaves a tool: once the client call has ended
\* the tool returns a value, and when the operation failed that value carries
\* an error indication.
C21_ToolsReportFailure ==
    exit # "running" => (GaveUp => HasError(reply))

\* ---------------------------------------------------------------------- C22
Fired(kind, n) == \E m \in 1..Len(result.indicators) : result.indicators[m] = <<kind, n>>

\* C22: for the subject "URGENT ACTION REQUIRED!!!!", with any sender and
\* body, the urgent pattern, the all-caps check and the exclamation check all
\* fire, the score is at least 4 and the likelihood is "high".
C22_UrgentCapsSubjectIsHigh ==
    (exit = "returned" /\ email_data.subject = Str("URGENT ACTION REQUIRED!!!!")) =>
        /\ Fired("subject", 1)
        /\ Fired("caps", 0)
        /\ Fired("exclamation", 0)
        /\ result.junk_score >= 4
        /\ result.likelihood = "high"

\* ---------------------------------------------------------------------- C23
\* find_unsubscribe_links has returned to the unsubscribe tool
LinksFound ==
    /\ op = "unsubscribe_from_email"
    /\ pc \in {"execute", "done"}
    /\ calls # <<>>
    /\ calls[1].res = "email"

\* the positions of `methods` that hold the first entry of their URL or address
FirstOccurrences(methods) ==
    {n \in 1..Len(methods) :
        \A m \in 1..(n - 1) : Identifier(methods[m]) # Identifier(methods[n])}

\* C23: the list returned by find_unsubscribe_links holds no two entries with
\* the same URL or address; it is the list of the first occurrences, in source
\* order (header, HTML body, text body), so a header URL repeated in the HTML
\* body yields one entry, the header one.
C23_FirstOccurrenceKept ==
    LinksFound =>
        LET all == AllMethods(email_data)
            out == unsubscribe_info.unsubscribe_methods
            firsts == SeqOfSet(FirstOccurrences(all))
        IN /\ \A m, n \in 1..Len(out) :
                  m # n => Identifier(out[m]) # Identifier(out[n])
           /\ out = [n \in 1..Len(firsts) |-> all[firsts[n]]]
           /\ unsubscribe_info.total_methods = Len(out)
           /\ \A url \in Range(HttpMatches(email_data.list_unsubscribe)) :
                  \A n \in 1..Len(out) :
                      Identifier(out[n]) = url => "source" \notin DOMAIN out[n]

\* a header URL occurs again among the links taken from the HTML body
C23_Witness ==
    /\ LinksFound
    /\ \E url \in Range(HttpMatches(email_data.list_unsubscribe)) :
          /\ \E n \in 1..Len(AllMethods(email_data)) :
                /\ "source" \in DOMAIN AllMethods(email_data)[n]
                /\ AllMethods(email_data)[n].source = "html_body"
                /\ AllMethods(email_data)[n].url = url
          /\ Cardinality({n \in 1..unsubscribe_info.total_methods :
                 Identifier(unsubscribe_info.unsubscribe_methods[n]) = url}) = 1

\* ---------------------------------------------------------------------- C24
OneClickHeader ==
    Contains(Str("List-Unsubscribe=One-Click"), email_data.list_unsubscribe_post)

\* C24: when the one-click header is present, exactly the first http(s) entry
\* parsed from the List-Unsubscribe header carries the one_click flag; every
\* other entry is left without it.
C24_OnlyFirstUpgraded ==
    (LinksFound /\ OneClickHeader) =>
        LET out == unsubscribe_info.unsubscribe_methods
        IN \A n \in 1..Len(out) :
              ("one_click" \in DOMAIN out[n])
                  <=> /\ out[n].type = "http"
                      /\ "source" \notin DOMAIN out[n]
                      /\ \A m \in 1..(n - 1) : out[m].type # "http"

\* ---------------------------------------------------------------------- C25
HttpRequests == {n \in 1..Len(calls) : calls[n].call \in {"requests.get", "requests.post"}}

\* C25: without confirm=True unsubscribe_from_email has no side effect: it
\* opens no mail session (makes no get_full_email_with_html call), sends no
\* HTTP request and returns an error result; an HTTP request is sent only in
\* a call where confirm is True.
C25_NoEffectWithoutConfirm ==
    op = "unsubscribe_from_email" =>
        /\ ~confirm =>
              /\ calls = <<>>
              /\ pc \in {"entry", "done"}
              /\ exit = "returned" => "error" \in DOMAIN result
        /\ HttpRequests # {} => confirm

\* a call without confirmation has returned
C25_Witness ==
    /\ op = "unsubscribe_from_email"
    /\ ~confirm
    /\ exit = "returned"
    /\ "error" \in DOMAIN result

\* ---------------------------------------------------------------------- C26
\* id was copied to the target and the store that marks it \Deleted was issued
MovedInMailbox(id) ==
    /\ CopiedOK(id)
    /\ \E n \in CallsOf("store") : id \in Range(log[n].ids)

\* C26: whenever bulk_move_emails returns, also after a later step of the
\* call failed, its moved count is the number of input ids that were copied
\* and had the mark-deleted store issued; it never reports moved = 0 after
\* messages were mutated.
C26_MutationsSurfaced ==
    (op = "bulk_move_emails" /\ exit = "returned") =>
        result.moved = Cardinality({id \in Range(email_ids) : MovedInMailbox(id)})

\* ---------------------------------------------------------------------- C27
RuleLoads == {n \in 1..Len(calls) : calls[n].call = "load_filter_rules"}
RuleSaves == {n \in 1..Len(calls) : calls[n].call = "save_filter_rules"}

\* the saves that rewrote the file, and what the file holds after one
Rewrites == {n \in RuleSaves : calls[n].arg # "fail"}
Version(n) == IF calls[n].arg = "ok" THEN calls[n].res ELSE <<>>

\* both callers loaded before either saved, and both saves went through
Interleaved ==
    /\ Cardinality(RuleLoads) = 2
    /\ Cardinality(RuleSaves) = 2
    /\ \A l \in RuleLoads, s \in RuleSaves : l < s /\ calls[s].arg = "ok"

\* C27: the rule store is read-modify-write without locking.  When two
\* writers both load before either saves, the store after both saves is the
\* version written by the last saver, which was made from the file as it was
\* before the other writer's save: the other writer's change is lost.  A
\* change that was saved stays visible, to the store and to every later load,
\* until a later save replaces it.
C27_LastWriterWins ==
    writers # <<>> =>
        /\ Rewrites # {} =>
              store = Version(CHOOSE n \in Rewrites : \A m \in Rewrites : m <= n)
        /\ \A l \in RuleLoads : \A s \in Rewrites :
              (s < l /\ \A m \in Rewrites : m < l => m <= s) =>
                  calls[l].res = Version(s)
        /\ Interleaved =>
              LET last == CHOOSE n \in RuleSaves : \A m \in RuleSaves : m <= n
              IN /\ store = calls[last].res
                 /\ \A l, m \in RuleLoads : calls[l].res = calls[m].res
                 /\ writers[calls[last].ids[1]].todo = store
                 /\ writers[calls[last].ids[1]].loaded
                        = calls[CHOOSE l \in RuleLoads : \A m \in RuleLoads : l <= m].res

\* two interleaved writers have saved, and a rule the first saver wrote is
\* missing from the store
C27_Witness ==
    /\ writers # <<>>
    /\ Interleaved
    /\ LET first_save == CHOOSE n \in RuleSaves : \A m \in RuleSaves : n <= m
       IN \E n \in 1..Len(calls[first_save].res) :
             ~NameTaken(store, calls[first_save].res[n].name)

\* the ids the search of this call returned, <<>> before it answered OK
SearchFound ==
    LET hits == {n \in 1..Len(log) : log[n].call = "search" /\ log[n].out = "OK"}
    IN IF hits = {} THEN <<>> ELSE log[CHOOSE n \in hits : TRUE].data

\* the last n items of a list, none when n is 0
LastLimit(l, n) == SubSeq(l, Len(l) - Min(n, Len(l)) + 1, Len(l))

\* C28: search_emails returns at most `limit` emails for every limit >= 0,
\* limit = 0 included, and the emails returned are among the last `limit` ids
\* of the search result, newest first.
C28_AtMostLimit ==
    (op = "search_emails" /\ exit = "returned") =>
        /\ Len(result.emails) <= limit
        /\ \E keep \in SUBSET (1..Len(LastLimit(SearchFound, limit))) :
              result.emails = Reverse(SeqOfSet({LastLimit(SearchFound, limit)[n] : n \in keep}))

\* C29: a bulk retrieval call (get_bulk_emails or get_bulk_emails_with_html)
\* issues all its fetches on the single session it opened: at no point during
\* the call are two sessions open at the same time.
C29_OneSessionAtATime ==
    op \in {"get_bulk_emails", "get_bulk_emails_with_html"} => open <= 1

\* the key of bulk_actions a bulk call empties
GroupOf(c) ==
    CASE c.call = "bulk_move_emails" -> "move_to_folder"
      [] c.call = "bulk_mark_emails" ->
             (IF c.arg = "\\Seen" THEN "mark_as_read" ELSE "mark_as_important")
      [] OTHER -> "delete"

\* C30: only enabled rules take part in an apply run: no disabled rule is
\* tested; every id of an aggregation group and of a bulk call was queued by
\* an enabled rule that matched the message (for a move, one that names the
\* folder), a bulk call being looked at in the state it is made in; and when
\* no rule is enabled the call returns without calling anything: no search,
\* no session, no write of the rule store.
C30_OnlyEnabledRules ==
    LET matches == {calls[m] : m \in ACallsOf("email_matches_rule")}
        enabled == {n \in 1..Len(rules) : rules[n].enabled}
        loaded == IF pc = "load" THEN store ELSE rules
        QueuedByEnabled(id, a, f) ==
            \E c \in matches :
                /\ c.ids[1] = id
                /\ \E n \in c.res.hits \cap enabled :
                      /\ Queues(n, a)
                      /\ a = "move_to_folder" => f \in FoldersOf({n})
    IN /\ \A c \in matches : c.res.tried \subseteq enabled
       /\ \A g \in 1..Len(bulk_actions.move_to_folder) :
              \A id \in Range(bulk_actions.move_to_folder[g][2]) :
                  QueuedByEnabled(id, "move_to_folder",
                                  bulk_actions.move_to_folder[g][1])
       /\ \A a \in {"mark_as_read", "mark_as_important", "delete"} :
              \A id \in Range(bulk_actions[a]) : QueuedByEnabled(id, a, "")
       /\ (calls # <<>> /\ IsBulk(calls[Len(calls)])) =>
              LET made == calls[Len(calls)]
              IN \A id \in Range(made.ids) :
                     QueuedByEnabled(id, GroupOf(made), made.arg)
       /\ (\A n \in 1..Len(loaded) : ~loaded[n].enabled) =>
              /\ calls = <<>>
              /\ open = 0
              /\ pc \in {"load", "done"}
              /\ pc = "done" =>
                    /\ exit = "returned"
                    /\ rules = store
                    /\ result.emails_processed = 0 /\ result.actions_taken = 0

\* a disabled rule without conditions stands before an enabled one: the
\* messages were tested, the delete the enabled rule asks for was made, and
\* nothing the disabled rule asks for was queued
C30_Witness ==
    /\ Len(rules) = 2 /\ ~rules[1].enabled /\ rules[1].conditions = <<>>
    /\ Len(full_emails) >= 2
    /\ bulk_actions.delete # <<>>
    /\ bulk_actions.mark_as_important = <<>>
    /\ \E b \in BulkCalls : calls[b].call = "bulk_delete_emails"

\* C31: when no transport call fails, get_bulk_emails over N ids with batch
\* size c issues exactly ceil(N/c) fetch requests, one multi-id request per
\* batch, and no single-id fallback request.
C31_OneFetchPerChunk ==
    (op = "get_bulk_emails" /\ exit = "returned" /\ NoTransportFailure) =>
        /\ Cardinality(CallsOf("fetch")) = CeilDiv(Len(email_ids), batch_size)
        /\ \A n \in CallsOf("fetch") : log[n].site = "batch"

\* C32: every record in the map returned by get_bulk_emails or
\* get_bulk_emails_with_html that is stored under identifier k is the record
\* of message k (record n is the raw message the session holds for id n),
\* whatever the positions of the records in a reply and whichever fallback
\* fetches fail.
C32_RecordsUnderTheirIds ==
    (op \in {"get_bulk_emails", "get_bulk_emails_with_html"} /\ exit = "returned") =>
        \A p \in result.emails : p[2] = p[1]

\* a bulk call that moved every one of its ids out of the mailbox: each was
\* copied and flagged \Deleted, and the expunge at the end of bulk_move_emails
\* removed them (bulk_delete_emails without `permanent` is a move to Trash)
RemovedAll(c) ==
    /\ c.call \in {"bulk_move_emails", "bulk_delete_emails"}
    /\ c.res.out = "OK"
    /\ c.ids # <<>>
    /\ GetOr(c.res.res, "moved") = Len(c.ids)

\* C33: with identifiers that are mailbox positions, renumbered when an
\* expunge removes messages, every mutation of an apply call acts on the
\* message its id was collected for: no bulk call uses an id after an earlier
\* bulk call of the run has removed a message at that position or below it
\* (which would make the id address another message).
C33_IdsSurviveExpunge ==
    \A b \in BulkCalls :
        \A a \in BulkCalls :
            (a < b /\ RemovedAll(calls[a])) =>
                \A id \in Range(calls[b].ids) :
                    \A gone \in Range(calls[a].ids) : id < gone

\* the copies that returned OK and covered id
CopiesOf(id) ==
    {n \in CallsOf("copy") : log[n].out = "OK" /\ id \in Range(log[n].ids)}

\* C34: within one bulk_move_emails call each input id is successfully copied
\* to the target folder at most once, whatever fails after a batch's copy.
C34_CopiedAtMostOnce ==
    op = "bulk_move_emails" =>
        \A id \in Range(email_ids) : Cardinality(CopiesOf(id)) <= 1

\* id was copied to the target and a store that marks it \Deleted returned OK
CopiedAndFlagged(id) ==
    /\ CopiedOK(id)
    /\ \E n \in CallsOf("store") : log[n].out = "OK" /\ id \in Range(log[n].ids)

\* C35: the moved count of bulk_move_emails counts only ids that were both
\* copied to the target folder and flagged \Deleted in the source mailbox: an
\* id whose mark-deleted store returned a non-OK status is not counted.
C35_MovedMeansCopiedAndFlagged ==
    (op = "bulk_move_emails" /\ exit = "returned") =>
        result.moved <= Cardinality({id \in Range(email_ids) : CopiedAndFlagged(id)})

\* the relocating groups of the chunk in hand that hold id: the target
\* folders it is queued for, and "delete" if it is queued for deletion
RelocatingGroups(id) ==
    {bulk_actions.move_to_folder[g][1] :
         g \in {x \in 1..Len(bulk_actions.move_to_folder) :
                   id \in Range(bulk_actions.move_to_folder[x][2])}}
    \cup (IF id \in Range(bulk_actions.delete) THEN {"delete"} ELSE {})

\* C36: within one apply_filter_rules_to_chunk or apply_filter_rules run each
\* message id is placed in at most one relocating group, a single
\* move_to_folder target or the delete group.
C36_OneRelocatingGroup ==
    \A e \in 1..Len(full_emails) :
        Cardinality(RelocatingGroups(full_emails[e][1])) <= 1

\* the number of ids a bulk call reported as succeeded
Succeeded(c) ==
    IF c.res.out # "OK" THEN 0
    ELSE GetOr(c.res.res, "moved") + GetOr(c.res.res, "marked")
         + GetOr(c.res.res, "deleted")

\* the sum of Succeeded over the bulk calls at the positions low..high of calls
RECURSIVE SucceededIn(_, _)
SucceededIn(low, high) ==
    IF low > high THEN 0
    ELSE (IF IsBulk(calls[low]) THEN Succeeded(calls[low]) ELSE 0)
         + SucceededIn(low + 1, high)

\* C37: the actions_taken value returned by apply_filter_rules and by
\* apply_filter_rules_to_chunk is the sum, over the bulk mutator calls of the
\* run (moves, mark_as_read, mark_as_important, delete), of the number of ids
\* each call reported as succeeded.
C37_ActionsTakenIsSum ==
    /\ (op = "apply_filter_rules" /\ exit = "returned"
            /\ "actions_taken" \in DOMAIN result /\ calls # <<>>) =>
           result.actions_taken = SucceededIn(1, Len(calls))
    /\ \A n \in ACallsOf("return") :
           LET starts == {m \in ACallsOf("apply_filter_rules_to_chunk") : m < n}
               start == CHOOSE m \in starts : \A x \in starts : x <= m
           IN calls[n].res.actions_taken = SucceededIn(start, n)

\* C38: in every result bulk_move_emails and bulk_mark_emails return (normal
\* completion, select failure, caught exception) succeeded + failed is the
\* number of input ids, whichever mix of batch and per-id paths was taken.
C38_EveryIdCountedOnce ==
    (op \in {"bulk_move_emails", "bulk_mark_emails"} /\ exit = "returned") =>
        (IF op = "bulk_move_emails" THEN result.moved ELSE result.marked)
            + result.failed = Len(email_ids)

\* a move of three ids in batches of two: one batch went through, the other
\* fell back to per-id copies of which one failed
C38_Witness ==
    /\ op = "bulk_move_emails" /\ exit = "returned"
    /\ Len(email_ids) = 3 /\ batch_size = 2
    /\ result.moved = 2 /\ result.failed = 1
    /\ \E n \in CallsOf("store") : log[n].site = "batch" /\ log[n].out = "OK"
    /\ \E n \in CallsOf("copy") : log[n].site = "single" /\ log[n].out # "OK"

\* C39: after any sequence of create, update and delete rule operations every
\* rule of the persisted store uses only condition kinds and action kinds of
\* the closed enumerations.
C39_StoreKeysValid ==
    \A n \in 1..Len(store) : KeysValid(store[n].conditions, store[n].actions)

\* C40: in filter_junk_emails with action move_to_spam an entry is reported
\* with action_taken = moved_to_spam if and only if that email's move to Spam
\* succeeded (it was copied and flagged \Deleted), and with move_failed if and
\* only if it was queued and its move failed; the summary's moved_to_spam +
\* move_failed is the number of emails queued.
C40_ActionTakenIsMoveStatus ==
    (op = "filter_junk_emails" /\ frame = "filter_junk_emails"
        /\ exit = "returned" /\ "entries" \in DOMAIN result) =>
        /\ \A n \in 1..Len(result.entries) :
              /\ result.entries[n].action_taken = "moved_to_spam"
                     <=> CopiedAndFlagged(result.entries[n].id)
              /\ result.entries[n].action_taken = "move_failed"
                     <=> ~CopiedAndFlagged(result.entries[n].id)
        /\ result.summary.moved_to_spam + result.summary.move_failed = Len(email_ids)

====
